---- MODULE Spec2Model ----
(***************************************************************************)
(* State-machine model of the ILS 2.0 Python services.                     *)
(*                                                                         *)
(*  - the multi-tenant request router (ai-service/api/tenant_router.py):   *)
(*    rate limiting, request de-duplication cache, usage tracking;         *)
(*  - the vector searches of the two RAG services;                         *)
(*  - JWT verification, startup and health check, LLM provider fallback;   *)
(*  - the secure query engine and POST /api/v1/query;                      *)
(*  - POST /api/v1/ocr/upload, GET /api/v1/analytics/order-trends,         *)
(*    POST /api/v1/feedback;                                               *)
(*  - the patient anonymizer and the ophthalmic chat.                      *)
(*                                                                         *)
(* Strings whose characters matter (tenant ids, query types, queries, the  *)
(* cache key) are sequences of one-character strings, so that lower(),     *)
(* strip(), split() and string concatenation are computed, not assumed.    *)
(* Time is the UTC wall clock in whole seconds.                            *)
(***************************************************************************)
EXTENDS Integers, Sequences, FiniteSets, TLC

(***************************************************************************)
(* Bounds of the model                                                     *)
(***************************************************************************)
\* number of router calls explored
MaxCalls == 2
\* number of clock advances explored
MaxTicks == 2
\* TENANT_<id>_RATE_LIMIT as set in the environment of the first tenant
EnvRateLimit == 1
\* rows in the tables
MaxRows == 2

(***************************************************************************)
(* State                                                                   *)
(***************************************************************************)
VARIABLES
    now,            \* datetime.utcnow(), seconds
    ticks,          \* clock advances so far
    calls,          \* router calls so far
    request_cache,  \* TenantRouter.request_cache: key -> entry
    rate_limits,    \* TenantRouter.rate_limits: tenant -> list of datetimes
    usage_stats,    \* TenantRouter.usage_stats: tenant -> counters
    admit_log,      \* history: tenant -> times of all admitted calls
    last            \* history: the last call, its arguments and outcome

routerVars == <<now, ticks, calls, request_cache, rate_limits, usage_stats,
                admit_log, last>>

VARIABLES
    db,         \* the rows of the three tables
    rag_conn,   \* python-rag-service RAGService.conn is set
    search      \* history: the last search, its arguments and result

searchVars == <<db, rag_conn, search>>

VARIABLES
    jwt_token,  \* the credentials presented
    jwt_tz,     \* the time zone of the server
    jwt_strict, \* the JWT library rejects exp = now (PyJWT 2) or accepts it (PyJWT 1)
    jwt         \* the outcome of the verification

jwtVars == <<jwt_token, jwt_tz, jwt_strict, jwt>>

VARIABLES
    database_url,   \* settings.database_url
    engine,         \* database._engine: None or "engine"
    db_available,   \* database._db_available
    db_status,      \* the database server: up, down (connections fail), slow
    llm_up,         \* the LLM provider answers
    lifespan_pc,    \* where the lifespan coroutine is
    init_db_result, \* how init_db ended, as wait_for reports it
    health          \* the last response of GET /health

svcVars == <<database_url, engine, db_available, db_status, llm_up,
             lifespan_pc, init_db_result, health>>

VARIABLES
    primary_provider,   \* LLMService.primary_provider
    fallback_provider,  \* LLMService.fallback_provider
    anthropic_client,   \* LLMService.anthropic_client is set
    llm_pc,             \* where generate_completion is
    llm_args,           \* temperature and max_tokens after defaulting
    llm_calls,          \* history: the provider API calls made, with their outcome
    llm_result          \* what generate_completion returned or raised

llmVars == <<primary_provider, fallback_provider, anthropic_client, llm_pc,
             llm_args, llm_calls, llm_result>>

VARIABLES
    engine_log,   \* history: the (engine, question) pairs passed to the query engines
    qe_requests,  \* requests served so far
    qe            \* history: the last call, its arguments, the engine's result and the response

qeVars == <<engine_log, qe_requests, qe>>

VARIABLES
    ocr_invocations,  \* history: calls of ocr_service.process_prescription_image so far
    ocr_requests,     \* uploads served so far
    ocr               \* history: the last upload, its arguments and the response

ocrVars == <<ocr_invocations, ocr_requests, ocr>>

VARIABLES
    connection_string,  \* python-service db.connection_string (DATABASE_URL), None when unset
    orders,             \* the rows of the orders table
    trends              \* history: the last GET /api/v1/analytics/order-trends and its response

trendsVars == <<connection_string, orders, trends>>

VARIABLES
    hash_salt,      \* PatientDataAnonymizer.hash_salt
    source_record,  \* a row of the source patients table
    anonymized      \* history: what _remove_identifiers returned for it, None before the call

anonVars == <<hash_salt, source_record, anonymized>>

VARIABLES
    enable_feedback,  \* settings.enable_feedback
    fb_db,            \* the database of the ai-service: up, down or unconfigured
    learning,         \* the ai_learning_data rows: id -> useCount, successRate
    fb_requests,      \* feedback requests served so far
    fb                \* history: the last POST /api/v1/feedback and its response

fbVars == <<enable_feedback, fb_db, learning, fb_requests, fb>>

VARIABLES
    chat_db,              \* the knowledge and learning rows the chat searches
    completion_requests,  \* history: the generate_completion calls of the chat, with what each forwards
    chat                  \* history: the last chat call, what the searches returned and its outcome

chatVars == <<chat_db, completion_requests, chat>>

vars == <<routerVars, searchVars, jwtVars, svcVars, llmVars, qeVars,
          ocrVars, trendsVars, anonVars, fbVars, chatVars>>

\* the state of the other components, which an action of one leaves alone
NotRouter == <<searchVars, jwtVars, svcVars, llmVars, qeVars, ocrVars,
               trendsVars, anonVars, fbVars, chatVars>>
NotSearch == <<routerVars, jwtVars, svcVars, llmVars, qeVars, ocrVars,
               trendsVars, anonVars, fbVars, chatVars>>
NotJwt == <<routerVars, searchVars, svcVars, llmVars, qeVars, ocrVars,
            trendsVars, anonVars, fbVars, chatVars>>
NotSvc == <<routerVars, searchVars, jwtVars, llmVars, qeVars, ocrVars,
            trendsVars, anonVars, fbVars, chatVars>>
NotLlm == <<routerVars, searchVars, jwtVars, svcVars, qeVars, ocrVars,
            trendsVars, anonVars, fbVars, chatVars>>
NotQe == <<routerVars, searchVars, jwtVars, svcVars, llmVars, ocrVars,
           trendsVars, anonVars, fbVars, chatVars>>
NotOcr == <<routerVars, searchVars, jwtVars, svcVars, llmVars, qeVars,
            trendsVars, anonVars, fbVars, chatVars>>
NotTrends == <<routerVars, searchVars, jwtVars, svcVars, llmVars, qeVars,
               ocrVars, anonVars, fbVars, chatVars>>
NotAnon == <<routerVars, searchVars, jwtVars, svcVars, llmVars, qeVars,
             ocrVars, trendsVars, fbVars, chatVars>>
NotFb == <<routerVars, searchVars, jwtVars, svcVars, llmVars, qeVars,
           ocrVars, trendsVars, anonVars, chatVars>>
NotChat == <<routerVars, searchVars, jwtVars, svcVars, llmVars, qeVars,
             ocrVars, trendsVars, anonVars, fbVars>>

(***************************************************************************)
(* Program constants                                                       *)
(***************************************************************************)
cache_ttl == 300
CacheMaxEntries == 1000
CacheEvictCount == 100
DefaultRateLimit == 60
RateWindowSeconds == 60
SecondsPerDay == 86400
ErrorTokens == 50

None == "None"
\* Python None where a response dict is expected
NoResponse == [none |-> TRUE]

(***************************************************************************)
(* Python str operations on character sequences                            *)
(***************************************************************************)
UpperChars == <<"A","B","C","D","E","F","G","H","I","J","K","L","M",
                "N","O","P","Q","R","S","T","U","V","W","X","Y","Z">>
LowerChars == <<"a","b","c","d","e","f","g","h","i","j","k","l","m",
                "n","o","p","q","r","s","t","u","v","w","x","y","z">>
Whitespace == {" ", "\t", "\n", "\r"}

LowerChar(c) ==
    IF \E i \in 1..Len(UpperChars) : UpperChars[i] = c
    THEN LowerChars[CHOOSE i \in 1..Len(UpperChars) : UpperChars[i] = c]
    ELSE c

\* str.lower()
StrLower(s) == [i \in 1..Len(s) |-> LowerChar(s[i])]

\* str.strip(): drop leading and trailing whitespace
StrStrip(s) ==
    LET idx == {i \in 1..Len(s) : s[i] \notin Whitespace}
    IN  IF idx = {} THEN <<>>
        ELSE LET lo == CHOOSE i \in idx : \A j \in idx : i <= j
                 hi == CHOOSE i \in idx : \A j \in idx : j <= i
             IN  SubSeq(s, lo, hi)

\* len(str.split()): number of maximal runs of non-whitespace characters
WordCount(s) ==
    Cardinality({i \in 1..Len(s) :
        /\ s[i] \notin Whitespace
        /\ (i = 1 \/ s[i-1] \in Whitespace)})

(***************************************************************************)
(* Inputs                                                                  *)
(***************************************************************************)
COLON == <<":">>
TenantA == <<"t">>
TenantB == <<"t", ":", "s", "a", "l", "e", "s">>
Tenants == {TenantA, TenantB}

QT_sales == <<"s","a","l","e","s">>
QT_inventory == <<"i","n","v","e","n","t","o","r","y">>
QT_patient_analytics ==
    <<"p","a","t","i","e","n","t","_","a","n","a","l","y","t","i","c","s">>
QT_ophthalmic_knowledge ==
    <<"o","p","h","t","h","a","l","m","i","c","_","k","n","o","w","l","e","d","g","e">>
QT_unknown == <<"h","r">>
QueryTypes == {QT_sales, QT_unknown}

Query1 == <<" ","T","o","p"," ","5"," ">>
Query2 == <<"s","a","l","e","s",":","t","o","p"," ","5">>
Queries == {Query1, Query2}

\* what the RAG engine does with a query: an answer, or an exception
AnswerText == <<"4","2"," ","u","n","i","t","s">>
RagOutcomes == {"ok", "raise"}

\* steps by which the clock advances between calls
TickSteps == {30, 270, SecondsPerDay}


(***************************************************************************)
(* TenantRouter                                                            *)
(***************************************************************************)
\* hashlib.sha256(...).hexdigest(): collision-free on the inputs of the model
Sha256Hex(data) == data

_generate_cache_key(tenant_id, query, query_type) ==
    Sha256Hex(tenant_id \o COLON \o query_type \o COLON \o StrStrip(StrLower(query)))

\* timedelta.seconds: the seconds field of the normalised timedelta
\* (days, seconds, microseconds), 0 <= seconds < 86400
TimedeltaSeconds(delta) == delta % SecondsPerDay

CacheAge(cached) == TimedeltaSeconds(now - cached.timestamp)

CacheValid(cached) == CacheAge(cached) < cache_ttl

\* check_duplicate_request: <<returned response or None, cache afterwards,
\*                            TRUE iff a cache hit was counted>>
check_duplicate_request(cache, tenant_id, query, query_type) ==
    LET cache_key == _generate_cache_key(tenant_id, query, query_type)
    IN  IF cache_key \in DOMAIN cache
        THEN IF CacheValid(cache[cache_key])
             THEN <<cache[cache_key].response, cache, TRUE>>
             ELSE <<NoResponse, [k \in DOMAIN cache \ {cache_key} |-> cache[k]], FALSE>>
        ELSE <<NoResponse, cache, FALSE>>

\* the sorted_keys[:100] of cache_response: the oldest entries
OldestKeys(cache, n) ==
    IF Cardinality(DOMAIN cache) <= n THEN DOMAIN cache
    ELSE CHOOSE S \in SUBSET DOMAIN cache :
            /\ Cardinality(S) = n
            /\ \A k \in S : \A j \in DOMAIN cache \ S :
                   cache[k].timestamp <= cache[j].timestamp

cache_response(cache, tenant_id, query, query_type, response) ==
    LET cache_key == _generate_cache_key(tenant_id, query, query_type)
        entry == [timestamp |-> now, response |-> response, tenant_id |-> tenant_id]
        stored == [k \in DOMAIN cache \cup {cache_key} |->
                      IF k = cache_key THEN entry ELSE cache[k]]
    IN  IF Cardinality(DOMAIN stored) > CacheMaxEntries
        THEN LET old == OldestKeys(stored, CacheEvictCount)
             IN  [k \in DOMAIN stored \ old |-> stored[k]]
        ELSE stored

\* the list comprehension of check_rate_limit
RecentRequests(requests) ==
    SelectSeq(requests, LAMBDA req_time : req_time > now - RateWindowSeconds)

\* the comparison of check_rate_limit, off by one
LimitExceeded_OffByOne(recent_requests, max_requests_per_minute) ==
    Len(recent_requests) > max_requests_per_minute

LimitExceeded(recent_requests, max_requests_per_minute) ==
    Len(recent_requests) >= max_requests_per_minute

\* check_rate_limit: <<returned bool, rate_limits[tenant_id] afterwards>>
check_rate_limit(requests, max_requests_per_minute) ==
    LET recent_requests == RecentRequests(requests)
    IN  IF LimitExceeded(recent_requests, max_requests_per_minute)
        THEN <<FALSE, recent_requests>>
        ELSE <<TRUE, Append(recent_requests, now)>>

\* get_tenant_config(tenant_id)["rate_limit"]
TenantRateLimit(tenant_id) ==
    IF tenant_id = TenantA THEN EnvRateLimit ELSE DefaultRateLimit

\* get_tenant_config(tenant_id)["features"]
ConfigFeatures == {"sales_queries", "inventory_queries", "patient_analytics",
                   "ophthalmic_knowledge"}

\* feature_map.get(query_type)
FeatureKey(query_type) ==
    CASE query_type = QT_sales -> "sales_queries"
      [] query_type = QT_inventory -> "inventory_queries"
      [] query_type = QT_patient_analytics -> "patient_analytics"
      [] query_type = QT_ophthalmic_knowledge -> "ophthalmic_knowledge"
      [] OTHER -> None

FeatureEnabled(query_type) == FeatureKey(query_type) \in ConfigFeatures

\* _process_query: the dict it returns, for an engine that answers or raises
_process_query(tenant_id, query, query_type, outcome) ==
    IF outcome = "ok"
    THEN [answer |-> AnswerText,
          tokens_used |-> WordCount(query) * 2 + WordCount(AnswerText),
          query_type |-> query_type,
          tenant_id |-> tenant_id,
          timestamp |-> now,
          success |-> TRUE]
    ELSE [answer |-> <<"e","r","r","o","r">>,
          tokens_used |-> ErrorTokens,
          query_type |-> query_type,
          tenant_id |-> tenant_id,
          timestamp |-> now,
          success |-> FALSE]

\* track_usage
track_usage(stats, tenant_id, tokens_used, success) ==
    [stats EXCEPT ![tenant_id] =
        [requests_count |-> @.requests_count + 1,
         tokens_used |-> @.tokens_used + tokens_used,
         cache_hits |-> @.cache_hits,
         errors |-> IF success THEN @.errors ELSE @.errors + 1]]

CountHit(stats, tenant_id, hit) ==
    IF hit THEN [stats EXCEPT ![tenant_id].cache_hits = @ + 1] ELSE stats

NoLast == [op |-> "none"]
NoEntry == [none |-> TRUE]
\* history: the cache entry under a key before a call
PriorEntry(cache, key) == IF key \in DOMAIN cache THEN cache[key] ELSE NoEntry

RouterInit ==
    /\ now = 0
    /\ ticks = 0
    /\ calls = 0
    /\ request_cache = <<>>
    /\ rate_limits = [t \in Tenants |-> <<>>]
    /\ usage_stats = [t \in Tenants |->
          [requests_count |-> 0, tokens_used |-> 0, cache_hits |-> 0, errors |-> 0]]
    /\ admit_log = [t \in Tenants |-> <<>>]
    /\ last = NoLast

\* the clock advances
Tick(d) ==
    /\ UNCHANGED NotRouter
    /\ ticks < MaxTicks
    /\ now' = now + d
    /\ ticks' = ticks + 1
    /\ UNCHANGED <<calls, request_cache, rate_limits, usage_stats, admit_log, last>>

\* a direct call of check_duplicate_request
CheckDuplicateRequest(tenant_id, query, query_type) ==
    LET r == check_duplicate_request(request_cache, tenant_id, query, query_type)
    IN  /\ UNCHANGED NotRouter
        /\ calls < MaxCalls
        /\ calls' = calls + 1
        /\ request_cache' = r[2]
        /\ usage_stats' = CountHit(usage_stats, tenant_id, r[3])
        /\ last' = [op |-> "check_duplicate_request", at |-> now, tenant_id |-> tenant_id,
                    query |-> query, query_type |-> query_type,
                    key |-> _generate_cache_key(tenant_id, query, query_type),
                    prior |-> PriorEntry(request_cache, _generate_cache_key(tenant_id, query, query_type)), response |-> r[1]]
        /\ UNCHANGED <<now, ticks, rate_limits, admit_log>>

\* route_query, rejected with 403: the feature is not enabled
RouteQueryForbidden(tenant_id, query, query_type) ==
    /\ UNCHANGED NotRouter
    /\ calls < MaxCalls
    /\ ~FeatureEnabled(query_type)
    /\ calls' = calls + 1
    /\ last' = [op |-> "route_query", at |-> now, tenant_id |-> tenant_id, query |-> query,
                query_type |-> query_type,
                key |-> _generate_cache_key(tenant_id, query, query_type),
                prior |-> PriorEntry(request_cache, _generate_cache_key(tenant_id, query, query_type)), status |-> 403, admitted |-> FALSE,
                recent |-> 0, processed |-> 0, from_cache |-> FALSE,
                response |-> NoResponse]
    /\ UNCHANGED <<now, ticks, request_cache, rate_limits, usage_stats, admit_log>>

\* route_query past the feature check: rate limit, cache lookup, processing
RouteQuery(tenant_id, query, query_type, outcome) ==
    LET rl == check_rate_limit(rate_limits[tenant_id], TenantRateLimit(tenant_id))
        dup == check_duplicate_request(request_cache, tenant_id, query, query_type)
        response == _process_query(tenant_id, query, query_type, outcome)
        base == [op |-> "route_query", at |-> now, tenant_id |-> tenant_id, query |-> query,
                 query_type |-> query_type,
                 key |-> _generate_cache_key(tenant_id, query, query_type),
                 prior |-> PriorEntry(request_cache, _generate_cache_key(tenant_id, query, query_type)),
                 recent |-> Cardinality({i \in 1..Len(admit_log[tenant_id]) :
                               admit_log[tenant_id][i] > now - RateWindowSeconds})]
    IN  /\ UNCHANGED NotRouter
        /\ calls < MaxCalls
        /\ FeatureEnabled(query_type)
        /\ calls' = calls + 1
        /\ rate_limits' = [rate_limits EXCEPT ![tenant_id] = rl[2]]
        /\ UNCHANGED <<now, ticks>>
        /\ IF ~rl[1]
           THEN \* 429
                /\ last' = base @@ [status |-> 429, admitted |-> FALSE,
                                    processed |-> 0, from_cache |-> FALSE,
                                    response |-> NoResponse]
                /\ UNCHANGED <<request_cache, usage_stats, admit_log>>
           ELSE /\ admit_log' = [admit_log EXCEPT ![tenant_id] = Append(@, now)]
                /\ IF dup[1] # NoResponse
                   THEN \* served from the cache
                        /\ request_cache' = dup[2]
                        /\ usage_stats' = CountHit(usage_stats, tenant_id, dup[3])
                        /\ last' = base @@ [status |-> 200, admitted |-> TRUE,
                                            processed |-> 0, from_cache |-> TRUE,
                                            response |-> dup[1]]
                   ELSE \* processed, tracked and cached
                        /\ request_cache' = cache_response(dup[2], tenant_id, query,
                                                           query_type, response)
                        /\ usage_stats' = track_usage(usage_stats, tenant_id,
                                              response.tokens_used, TRUE)
                        /\ last' = base @@ [status |-> 200, admitted |-> TRUE,
                                            processed |-> 1, from_cache |-> FALSE,
                                            response |-> response]

RouterNext ==
    \/ \E d \in TickSteps : Tick(d)
    \/ \E t \in Tenants, q \in Queries :
          CheckDuplicateRequest(t, q, QT_sales)
    \/ \E t \in Tenants, q \in Queries, qt \in QueryTypes :
          RouteQueryForbidden(t, q, qt)
    \/ \E t \in Tenants, q \in Queries, qt \in QueryTypes, o \in RagOutcomes :
          RouteQuery(t, q, qt, o)


(***************************************************************************)
(* Properties of the tenant router                                         *)
(***************************************************************************)
\* admitted calls of a tenant in the window (w - 60, w]
AdmittedInWindow(t, w) ==
    Cardinality({i \in 1..Len(admit_log[t]) :
        /\ admit_log[t][i] > w - RateWindowSeconds
        /\ admit_log[t][i] <= w})

WindowEnds(t) == {now} \cup {admit_log[t][i] : i \in 1..Len(admit_log[t])}

RateChecked == last.op = "route_query" /\ last.status # 403

\* C1: per-tenant sliding window. In every reachable state, for every tenant
\* with limit N, at most N calls were admitted in any 60-second window
\* (w - 60, w]; a call is refused exactly when N admitted calls of the same
\* tenant lie within the 60 seconds before it; the count is over the calling
\* tenant's own admitted calls only.
C1_RateLimitSlidingWindow ==
    /\ \A t \in Tenants : \A w \in WindowEnds(t) :
          AdmittedInWindow(t, w) <= TenantRateLimit(t)
    /\ RateChecked =>
          (last.admitted = FALSE <=> last.recent = TenantRateLimit(last.tenant_id))

\* a call of the first tenant refused with its limit of admitted calls in the window
C1_Witness ==
    /\ RateChecked
    /\ last.status = 429
    /\ last.recent = TenantRateLimit(last.tenant_id)
    /\ last.recent > 0

\* true age, in seconds, of the cache entry a call found under its key
PriorAge == last.at - last.prior.timestamp

\* C2: a lookup returns a cached response only if the entry was stored less
\* than cache_ttl seconds before; an entry of age cache_ttl or more (a day
\* or more included) is never returned and is removed by the lookup.
C2_CacheExpires ==
    (last.op = "check_duplicate_request" /\ last.prior # NoEntry) =>
        /\ last.response # NoResponse => PriorAge < cache_ttl
        /\ PriorAge >= cache_ttl =>
              /\ last.response = NoResponse
              /\ last.key \notin DOMAIN request_cache

\* C3: a routed query within the rate limit is answered from the cache, without
\* processing, when a non-expired entry exists under its key; otherwise it is
\* processed exactly once, answered with from_cache = False, and the response
\* is stored under the key.
C3_RouteQueryDedup ==
    (last.op = "route_query" /\ last.status = 200) =>
        IF last.prior # NoEntry /\ PriorAge < cache_ttl
        THEN /\ last.from_cache
             /\ last.processed = 0
             /\ last.response = last.prior.response
        ELSE /\ ~last.from_cache
             /\ last.processed = 1
             /\ last.key \in DOMAIN request_cache
             /\ request_cache[last.key].response = last.response

ServedFromCache ==
    \/ last.op = "route_query" /\ last.status = 200 /\ last.from_cache
    \/ last.op = "check_duplicate_request" /\ last.response # NoResponse

\* C4: a response served from the cache was cached by a call of the same
\* tenant: no tenant is handed an entry another tenant stored.
C4_CacheTenantIsolation ==
    ServedFromCache => last.prior.tenant_id = last.tenant_id

(***************************************************************************)
(* Vector search of the knowledge base and of the learned data             *)
(* (ai-service/services/rag_service.py,                                    *)
(*  python-rag-service/services/rag_service.py).                           *)
(* Distances and similarities are in hundredths; a row's distance is the   *)
(* cosine distance of its embedding to the embedding of the query.         *)
(***************************************************************************)
rag_top_k == 5
\* rag_similarity_threshold, the default threshold of search_knowledge_base
SimilarityThreshold == 70
MaxLimit == 100
One == 100

NoEmbedding == -1
RowDistances == {NoEmbedding, 10, 50}
Categories == {"ophthalmic", "general"}
Uuids == {"c1", "c2"}
InvalidUuid == "ValueError"
\* company_id arguments: a UUID, the same UUID in upper case, another
\* company's UUID, and a string that is no UUID
CompanyArgs == {"c1", "C1", "test-company-001"}
CategoryArgs == {None, "ophthalmic"}
\* top_k arguments; 0 stands for None
TopKArgs == {0, 1}
LimitArgs == {0, 1, 5}

\* uuid.UUID(company_id): the UUID whatever the case of the hex digits,
\* ValueError for a string that is no UUID
UuidParse(company_id) ==
    CASE company_id \in {"c1", "C1"} -> "c1"
      [] company_id \in {"c2", "C2"} -> "c2"
      [] OTHER -> InvalidUuid

KbRows == [table : {"aiKnowledgeBase"}, companyId : Uuids, isActive : BOOLEAN,
           distance : RowDistances, category : Categories]
LearningRows == [table : {"aiLearningData"}, companyId : Uuids,
                 isValidated : BOOLEAN, distance : RowDistances \ {50},
                 category : {"ophthalmic"}]
RagRows == [table : {"ai_knowledge_base"}, companyId : {"c1", "c2"},
            isActive : BOOLEAN, distance : RowDistances \ {NoEmbedding}]
AllRows == KbRows \cup LearningRows \cup RagRows


Similarity(row) == One - row.distance

\* the WHERE clause of search_knowledge without its company condition
KbMatches_AnyCompany(row, company_uuid, category) ==
    /\ row.table = "aiKnowledgeBase"
    /\ row.isActive
    /\ row.distance # NoEmbedding
    /\ (category # None => row.category = category)

\* the WHERE clause of search_knowledge
KbMatches(row, company_uuid, category) ==
    /\ row.table = "aiKnowledgeBase"
    /\ row.companyId = company_uuid
    /\ row.isActive
    /\ row.distance # NoEmbedding
    /\ (category # None => row.category = category)

\* the WHERE clause of search_learned_data
LearningMatches(row, company_uuid, category) ==
    /\ row.table = "aiLearningData"
    /\ row.companyId = company_uuid
    /\ row.distance # NoEmbedding
    /\ row.isValidated
    /\ (category # None => row.category = category)

\* the WHERE clause of search_knowledge_base
RagMatches(row, company_id, threshold) ==
    /\ row.table = "ai_knowledge_base"
    /\ row.companyId = company_id
    /\ row.isActive
    /\ row.distance # NoEmbedding
    /\ Similarity(row) >= threshold

Min(a, b) == IF a < b THEN a ELSE b

\* ORDER BY distance LIMIT k: the possible result lists
OrderByLimit(rows, k) ==
    LET n == Min(k, Cardinality(rows))
    IN  {r \in [1..n -> rows] :
            /\ \A i, j \in 1..n : i < j => r[i] # r[j] /\ r[i].distance <= r[j].distance
            /\ \A x \in rows : (\A i \in 1..n : r[i] # x) =>
                  \A i \in 1..n : r[i].distance <= x.distance}

\* the formatting loop: rows at or above the similarity threshold
AboveThreshold(rows) ==
    SelectSeq(rows, LAMBDA row : Similarity(row) >= SimilarityThreshold)

\* top_k or self.top_k
EffectiveTopK(top_k) == IF top_k = 0 THEN rag_top_k ELSE top_k

NoSearch == [op |-> "none"]

SearchInit ==
    /\ db = {}
    /\ rag_conn = FALSE
    /\ search = NoSearch
RagCompanyArgs == {"c1", ""}
ThresholdArgs == {SimilarityThreshold, 150}

\* a row is written to one of the tables
InsertRow(row) ==
    /\ UNCHANGED NotSearch
    /\ Cardinality(db) < MaxRows
    /\ row \notin db
    /\ db' = db \cup {row}
    /\ UNCHANGED <<rag_conn, search>>

\* python-rag-service RAGService.connect()
RagConnect ==
    /\ UNCHANGED NotSearch
    /\ ~rag_conn
    /\ rag_conn' = TRUE
    /\ UNCHANGED <<db, search>>

\* rag_service.search_knowledge; fails: the embedding call or the session raises
SearchKnowledge(company_id, category, top_k, fails) ==
    LET uuid == UuidParse(company_id)
        matching == {row \in db : KbMatches(row, uuid, category)}
    IN  /\ UNCHANGED NotSearch
        /\ \E rows \in OrderByLimit(matching, EffectiveTopK(top_k)) :
              search' = [op |-> "search_knowledge", company_id |-> company_id,
                         raised |-> "no",
                         rows |-> IF fails \/ uuid = InvalidUuid THEN <<>>
                                  ELSE AboveThreshold(rows)]
        /\ UNCHANGED <<db, rag_conn>>

\* rag_service.search_learned_data
SearchLearnedData(company_id, category, top_k, fails) ==
    LET uuid == UuidParse(company_id)
        matching == {row \in db : LearningMatches(row, uuid, category)}
    IN  /\ UNCHANGED NotSearch
        /\ \E rows \in OrderByLimit(matching, EffectiveTopK(top_k)) :
              search' = [op |-> "search_learned_data", company_id |-> company_id,
                         raised |-> "no",
                         rows |-> IF fails \/ uuid = InvalidUuid THEN <<>>
                                  ELSE AboveThreshold(rows)]
        /\ UNCHANGED <<db, rag_conn>>

\* the argument checks of search_knowledge_base: the exception raised, or "no"
RagArgumentError(company_id, limit, threshold) ==
    CASE ~rag_conn -> "RuntimeError"
      [] company_id = "" -> "ValueError"
      [] limit < 1 \/ limit > MaxLimit -> "ValueError"
      [] threshold < 0 \/ threshold > One -> "ValueError"
      [] OTHER -> "no"

\* python-rag-service search_knowledge_base; fails: the cursor raises
SearchKnowledgeBase(company_id, limit, threshold, fails) ==
    LET err == RagArgumentError(company_id, limit, threshold)
        matching == {row \in db : RagMatches(row, company_id, threshold)}
    IN  /\ UNCHANGED NotSearch
        /\ IF err # "no"
           THEN search' = [op |-> "search_knowledge_base", company_id |-> company_id,
                           raised |-> err, rows |-> <<>>]
           ELSE IF fails
           THEN search' = [op |-> "search_knowledge_base", company_id |-> company_id,
                           raised |-> "RuntimeError", rows |-> <<>>]
           ELSE \E rows \in OrderByLimit(matching, limit) :
                   search' = [op |-> "search_knowledge_base",
                              company_id |-> company_id,
                              raised |-> "no", rows |-> rows]
        /\ UNCHANGED <<db, rag_conn>>

SearchNext ==
    \/ \E row \in AllRows : InsertRow(row)
    \/ RagConnect
    \/ \E c \in CompanyArgs, cat \in CategoryArgs, k \in TopKArgs :
          SearchKnowledge(c, cat, k, FALSE)
    \/ \E c \in CompanyArgs : SearchKnowledge(c, None, 0, TRUE)
    \/ \E c \in CompanyArgs, cat \in CategoryArgs, k \in TopKArgs :
          SearchLearnedData(c, cat, k, FALSE)
    \/ \E c \in CompanyArgs : SearchLearnedData(c, None, 0, TRUE)
    \/ \E c \in RagCompanyArgs, l \in LimitArgs, t \in ThresholdArgs :
          SearchKnowledgeBase(c, l, t, FALSE)
    \/ \E c \in RagCompanyArgs : SearchKnowledgeBase(c, 1, SimilarityThreshold, TRUE)

\* the company a search was made for
SearchedCompany ==
    IF search.op = "search_knowledge_base" THEN search.company_id
    ELSE UuidParse(search.company_id)

\* C5: every row returned by search_knowledge, search_learned_data and
\* search_knowledge_base is a row of the company the search was made for.
C5_TenantScopedRetrieval ==
    search.op # "none" =>
        \A i \in 1..Len(search.rows) : search.rows[i].companyId = SearchedCompany

\* a search that returns a row while a row of another company, which matches
\* in everything but the company, is in the same table
C5_Witness ==
    /\ search.op # "none"
    /\ Len(search.rows) > 0
    /\ \E other \in db :
          /\ other.table = search.rows[1].table
          /\ other.companyId # SearchedCompany
          /\ other.distance # NoEmbedding
          /\ Similarity(other) >= SimilarityThreshold

(***************************************************************************)
(* JWT verification (ai-service/api/main.py, ai-service/app.py).           *)
(* A token is its signature's validity and its claims; a claim that is     *)
(* absent is None. Times are seconds since the epoch.                      *)
(***************************************************************************)
UtcNow == 100000
TokenIds == {None, "", "t1"}
TokenCompanyIds == {None, "c9"}
TokenUserIds == {None, "", "u1"}
TokenExps == {-1, UtcNow - 3600, UtcNow, UtcNow + 60, UtcNow + 7200}
NoExp == -1
\* offset of the server's local time from UTC, seconds
TzOffsets == {-18000, 0, 3600}
Tokens == [sig : BOOLEAN, tenant_id : TokenIds, companyId : TokenCompanyIds,
           user_id : TokenUserIds, userId : {None, "u2"},
           company_id : {None, "c1"}, exp : TokenExps]


\* truth value of an optional string
Truthy(x) == x # None /\ x # ""

\* a or b
PyOr(a, b) == IF Truthy(a) THEN a ELSE b

\* jwt.decode(token, key, algorithms=[...]): the exception it raises, or "no"
JwtDecodeError(token) ==
    CASE ~token.sig -> "InvalidSignatureError"
      [] token.exp # NoExp /\ token.exp < UtcNow -> "ExpiredSignatureError"
      [] token.exp # NoExp /\ token.exp = UtcNow /\ jwt_strict -> "ExpiredSignatureError"
      [] OTHER -> "no"

\* datetime.fromtimestamp(exp): naive local time
FromTimestamp(exp) == exp + jwt_tz

\* exp and datetime.fromtimestamp(exp) < datetime.utcnow()
ExpiredCheck(exp) == exp # NoExp /\ exp # 0 /\ FromTimestamp(exp) < UtcNow

\* the identifier check with only the tenant looked at
InvalidPayload_TenantOnly(tenant_id, user_id) == ~Truthy(tenant_id)

\* not tenant_id or not user_id
InvalidPayload(tenant_id, user_id) == ~Truthy(tenant_id) \/ ~Truthy(user_id)

Unauthorized(detail) == [status |-> 401, detail |-> detail]

\* the verification after a successful decode
VerifyClaims(tenant_id, user_id, company_id, exp, default_exp) ==
    IF InvalidPayload(tenant_id, user_id)
    THEN Unauthorized("Invalid token payload")
    ELSE IF ExpiredCheck(exp)
    THEN Unauthorized("Token expired")
    ELSE [status |-> 200, tenant_id |-> tenant_id, user_id |-> user_id,
          company_id |-> company_id,
          exp |-> IF exp # NoExp /\ exp # 0 THEN FromTimestamp(exp) ELSE default_exp]

\* api/main.py verify_jwt_token
verify_jwt_token_main(token) ==
    IF JwtDecodeError(token) # "no"
    THEN Unauthorized("Could not validate credentials")
    ELSE VerifyClaims(token.tenant_id, token.user_id, None, token.exp, UtcNow)

\* app.py verify_jwt_token
verify_jwt_token_app(token) ==
    IF JwtDecodeError(token) # "no"
    THEN Unauthorized("Could not validate credentials")
    ELSE LET tenant_id == PyOr(token.tenant_id, token.companyId)
             user_id == PyOr(token.user_id, token.userId)
             company_id == PyOr(PyOr(token.company_id, token.companyId), tenant_id)
         IN  VerifyClaims(tenant_id, user_id, company_id, token.exp, UtcNow + 3600)

NoJwt == [status |-> 0]

JwtIdle ==
    /\ jwt_token = [sig |-> FALSE, tenant_id |-> None, companyId |-> None,
                    user_id |-> None, userId |-> None, company_id |-> None,
                    exp |-> NoExp]
    /\ jwt_tz = 0
    /\ jwt_strict = TRUE
    /\ jwt = NoJwt

JwtInit ==
    /\ jwt_token \in Tokens
    /\ jwt_tz \in TzOffsets
    /\ jwt_strict \in BOOLEAN
    /\ jwt = NoJwt

VerifyMain ==
    /\ UNCHANGED NotJwt
    /\ jwt = NoJwt
    /\ jwt' = [op |-> "main"] @@ verify_jwt_token_main(jwt_token)
    /\ UNCHANGED <<jwt_token, jwt_tz, jwt_strict>>

VerifyApp ==
    /\ UNCHANGED NotJwt
    /\ jwt = NoJwt
    /\ jwt' = [op |-> "app"] @@ verify_jwt_token_app(jwt_token)
    /\ UNCHANGED <<jwt_token, jwt_tz, jwt_strict>>

JwtNext == VerifyMain \/ VerifyApp

\* the tenant and user identifiers a token carries
TokenTenant == IF jwt.op = "app" /\ ~Truthy(jwt_token.tenant_id)
               THEN jwt_token.companyId ELSE jwt_token.tenant_id
TokenUser == IF jwt.op = "app" /\ ~Truthy(jwt_token.user_id)
             THEN jwt_token.userId ELSE jwt_token.user_id

TokenAcceptable ==
    /\ jwt_token.sig
    /\ Truthy(TokenTenant)
    /\ Truthy(TokenUser)
    /\ (jwt_token.exp # NoExp => jwt_token.exp >= UtcNow)

\* C6: a payload is returned only for a token with a valid signature,
\* non-empty tenant and user identifiers and an exp, when present, not earlier
\* than now; every other token is answered 401; the payload's tenant_id is
\* the tenant identifier of the token.
C6_JwtVerification ==
    jwt # NoJwt =>
        /\ jwt.status \in {200, 401}
        /\ jwt.status = 200 => TokenAcceptable /\ jwt.tenant_id = TokenTenant
        /\ ~TokenAcceptable => jwt.status = 401

\* an accepted token whose tenant identifier is the companyId claim
C6_Witness ==
    /\ jwt # NoJwt
    /\ jwt.status = 200
    /\ jwt_token.exp # NoExp
    /\ jwt.tenant_id = "c9"

(***************************************************************************)
(* Startup and health check of the ai-service (ai-service/app.py,          *)
(* ai-service/services/database.py, ai-service/services/llm_service.py).   *)
(***************************************************************************)
InitDbTimeoutSeconds == 30
HealthDbTimeoutSeconds == 3

DatabaseUrls == {None, "", "postgresql://db"}
DbStatuses == {"up", "down", "slow"}


\* is_db_configured(): bool(settings.database_url)
is_db_configured == database_url # None /\ database_url # ""

\* _get_engine(): <<returned engine, _engine afterwards, _db_available afterwards>>
\* creatable: create_async_engine does not raise
_get_engine(creatable) ==
    IF engine = None
    THEN IF ~is_db_configured THEN <<None, None, FALSE>>
         ELSE IF creatable THEN <<"engine", "engine", TRUE>>
         ELSE <<None, None, FALSE>>
    ELSE <<engine, engine, db_available>>

\* the attributes of class LLMService
LLMServiceAttributes ==
    {"openai_client", "anthropic_client", "primary_provider", "fallback_provider",
     "generate_completion", "_generate_openai", "_generate_anthropic",
     "generate_embeddings", "check_health"}

\* llm_service.is_available(): <<"returned", value>> or <<"raised", exception>>
CallIsAvailable ==
    IF "is_available" \in LLMServiceAttributes
    THEN <<"returned", llm_up>>
    ELSE <<"raised", "AttributeError">>

\* the call without its try/except
CaughtAsFalse_Uncaught(outcome) == outcome

\* try: ... except Exception: value = False
CaughtAsFalse(outcome) ==
    IF outcome[1] = "raised" THEN <<"returned", FALSE>> ELSE outcome

\* lifespan without its except asyncio.TimeoutError clause
LifespanAfterInit_TimeoutEscapes(result) ==
    CASE result = "returned" -> "serving"
      [] result = "TimeoutError" -> "failed"
      [] result = "raised" -> "serving"

\* the except clauses of lifespan: what startup does with init_db's outcome
LifespanAfterInit(result) ==
    CASE result = "returned" -> "serving"
      [] result = "TimeoutError" -> "serving"
      [] result = "raised" -> "serving"

\* check_db_health(timeout): <<"returned", bool>>
check_db_health(eng) ==
    IF ~is_db_configured THEN <<"returned", FALSE>>
    ELSE IF eng = None THEN <<"returned", FALSE>>
    ELSE CASE db_status = "up" -> <<"returned", TRUE>>
           [] db_status = "slow" -> <<"returned", FALSE>>
           [] db_status = "down" -> <<"returned", FALSE>>

\* the response of health_check, or HTTP 500 when an exception leaves the handler
HealthResponse(db_healthy, llm_available) ==
    IF db_healthy[1] = "raised" \/ llm_available[1] = "raised"
    THEN [http |-> 500, status |-> "error", database |-> "", llm |-> ""]
    ELSE [http |-> 200,
          status |-> IF db_healthy[2] /\ llm_available[2]
                     THEN "healthy" ELSE "degraded",
          database |-> IF db_healthy[2] THEN "connected" ELSE "disconnected",
          llm |-> IF llm_available[2] THEN "available" ELSE "unavailable"]

NoHealth == [http |-> 0]

SvcIdle ==
    /\ database_url = None
    /\ engine = None
    /\ db_available = FALSE
    /\ db_status = "up"
    /\ llm_up = TRUE
    /\ lifespan_pc = "startup"
    /\ init_db_result = "pending"
    /\ health = NoHealth

SvcInit ==
    /\ database_url \in DatabaseUrls
    /\ engine = None
    /\ db_available = FALSE
    /\ db_status \in DbStatuses
    /\ llm_up \in BOOLEAN
    /\ lifespan_pc = "startup"
    /\ init_db_result = "pending"
    /\ health = NoHealth

\* the database server or the LLM provider changes state
EnvironmentChange ==
    /\ UNCHANGED NotSvc
    /\ \/ db_status' \in DbStatuses \ {db_status} /\ UNCHANGED llm_up
       \/ llm_up' = ~llm_up /\ UNCHANGED db_status
    /\ UNCHANGED <<database_url, engine, db_available, lifespan_pc,
                   init_db_result, health>>

\* lifespan: the log lines, then asyncio.wait_for(init_db(), timeout=30.0)
LifespanStart ==
    /\ UNCHANGED NotSvc
    /\ lifespan_pc = "startup"
    /\ lifespan_pc' = "init_db"
    /\ UNCHANGED <<database_url, engine, db_available, db_status, llm_up,
                   init_db_result, health>>

\* init_db up to engine.begin()
InitDbBegin(creatable) ==
    LET e == _get_engine(creatable)
    IN  /\ UNCHANGED NotSvc
        /\ lifespan_pc = "init_db"
        /\ IF ~is_db_configured
           THEN /\ init_db_result' = "returned"
                /\ lifespan_pc' = "after_init"
                /\ UNCHANGED <<engine, db_available>>
           ELSE /\ engine' = e[2]
                /\ db_available' = e[3]
                /\ IF e[1] = None
                   THEN init_db_result' = "returned" /\ lifespan_pc' = "after_init"
                   ELSE lifespan_pc' = "connecting" /\ UNCHANGED init_db_result
        /\ UNCHANGED <<database_url, db_status, llm_up, health>>

\* init_db: engine.begin() and CREATE EXTENSION succeed, or raise and are logged
InitDbConnect ==
    /\ UNCHANGED NotSvc
    /\ lifespan_pc = "connecting"
    /\ db_status \in {"up", "down"}
    /\ init_db_result' = "returned"
    /\ lifespan_pc' = "after_init"
    /\ UNCHANGED <<database_url, engine, db_available, db_status, llm_up, health>>

\* wait_for: 30 seconds pass, init_db is cancelled
InitDbTimeout ==
    /\ UNCHANGED NotSvc
    /\ lifespan_pc = "connecting"
    /\ db_status = "slow"
    /\ init_db_result' = "TimeoutError"
    /\ lifespan_pc' = "after_init"
    /\ UNCHANGED <<database_url, engine, db_available, db_status, llm_up, health>>

\* lifespan: the except clauses, the last log line, yield
LifespanServe ==
    /\ UNCHANGED NotSvc
    /\ lifespan_pc = "after_init"
    /\ lifespan_pc' = LifespanAfterInit(init_db_result)
    /\ UNCHANGED <<database_url, engine, db_available, db_status, llm_up,
                   init_db_result, health>>

\* GET /health
HealthCheck(creatable) ==
    LET e == _get_engine(creatable)
        db_healthy == CaughtAsFalse(check_db_health(e[1]))
        llm_available == CaughtAsFalse(CallIsAvailable)
    IN  /\ UNCHANGED NotSvc
        /\ lifespan_pc = "serving"
        /\ IF is_db_configured
           THEN engine' = e[2] /\ db_available' = e[3]
           ELSE UNCHANGED <<engine, db_available>>
        /\ health' = HealthResponse(db_healthy, llm_available) @@
                        [db_healthy |-> db_status = "up" /\ e[1] # None,
                         llm_up |-> llm_up]
        /\ UNCHANGED <<database_url, db_status, llm_up, lifespan_pc, init_db_result>>

StartupStep ==
    \/ LifespanStart
    \/ \E c \in BOOLEAN : InitDbBegin(c)
    \/ InitDbConnect
    \/ InitDbTimeout
    \/ LifespanServe

SvcNext ==
    \/ EnvironmentChange
    \/ StartupStep
    \/ \E c \in BOOLEAN : HealthCheck(c)

\* C7: GET /health always answers 200 with status healthy or degraded.
C7_HealthAlways200 ==
    health # NoHealth =>
        health.http = 200 /\ health.status \in {"healthy", "degraded"}

\* a health check answered while the database is configured but does not answer
C7_Witness ==
    /\ health # NoHealth
    /\ is_db_configured
    /\ ~health.db_healthy
    /\ health.http = 200

\* C8: GET /health reports healthy exactly when the database health check
\* succeeds and the LLM provider is available, and then reports the database
\* connected and the llm available.
C8_HealthyIffBothUp ==
    health # NoHealth =>
        /\ health.status = "healthy" <=> (health.db_healthy /\ health.llm_up)
        /\ health.status = "healthy" =>
              health.database = "connected" /\ health.llm = "available"

\* C9: startup always reaches the serving state, and init_db never ends
\* with an exception of its own.
C9_StartupReachesServing ==
    /\ [](init_db_result # "raised")
    /\ <>(lifespan_pc = "serving")

\* the service serves after init_db was cancelled by the timeout
C9_Witness ==
    /\ lifespan_pc = "serving"
    /\ init_db_result = "TimeoutError"

(***************************************************************************)
(* LLM completion with fallback (ai-service/services/llm_service.py)       *)
(***************************************************************************)
\* values of PRIMARY_LLM_PROVIDER and FALLBACK_LLM_PROVIDER
ProviderSettings == {"openai", "anthropic", "local"}
\* settings.temperature, in hundredths, and settings.max_tokens
DefaultTemperature == 70
DefaultMaxTokens == 2000
\* arguments of generate_completion; 0 stands for None as well as for 0
TemperatureArgs == {0, 20}
MaxTokensArgs == {0, 100}


NoResult == [outcome |-> "pending", provider |-> None]
AllFailed == [outcome |-> "raised", provider |-> None]
Returned(provider) == [outcome |-> "returned", provider |-> provider]

\* the provider the primary branch calls, None if no branch is taken
PrimaryBranch ==
    CASE primary_provider = "openai" -> "openai"
      [] primary_provider = "anthropic" -> "anthropic"
      [] OTHER -> None

\* the provider the fallback branch calls, None if no branch is taken
FallbackBranch ==
    CASE fallback_provider = "openai" /\ primary_provider # "openai" -> "openai"
      [] fallback_provider = "anthropic" /\ primary_provider # "anthropic"
            /\ anthropic_client -> "anthropic"
      [] OTHER -> None

\* _generate_anthropic raises before any API call when no client is configured
ReachesApi(provider) == provider = "openai" \/ anthropic_client

NoArgs == [temperature |-> 0, max_tokens |-> 0]

\* temperature or settings.temperature, max_tokens or settings.max_tokens
EffectiveArgs(temperature, max_tokens) ==
    [temperature |-> IF temperature = 0 THEN DefaultTemperature ELSE temperature,
     max_tokens |-> IF max_tokens = 0 THEN DefaultMaxTokens ELSE max_tokens]

LlmIdle ==
    /\ primary_provider = "openai"
    /\ fallback_provider = "anthropic"
    /\ anthropic_client = FALSE
    /\ llm_pc = "idle"
    /\ llm_args = NoArgs
    /\ llm_calls = <<>>
    /\ llm_result = NoResult

LlmInit ==
    /\ primary_provider \in ProviderSettings
    /\ fallback_provider \in ProviderSettings
    /\ anthropic_client \in BOOLEAN
    /\ llm_pc = "idle"
    /\ llm_args = NoArgs
    /\ llm_calls = <<>>
    /\ llm_result = NoResult

\* generate_completion is called
GenerateStart(temperature, max_tokens) ==
    /\ UNCHANGED NotLlm
    /\ llm_pc \in {"idle", "done"}
    /\ llm_pc' = "primary"
    /\ llm_args' = EffectiveArgs(temperature, max_tokens)
    /\ llm_calls' = <<>>
    /\ llm_result' = NoResult
    /\ UNCHANGED <<primary_provider, fallback_provider, anthropic_client>>

\* the first try block; ok: the provider's API answers
TryPrimary(ok) ==
    /\ UNCHANGED NotLlm
    /\ llm_pc = "primary"
    /\ IF PrimaryBranch = None
       THEN \* neither branch: control leaves the try block and reaches the raise
            /\ llm_pc' = "done"
            /\ llm_result' = AllFailed
            /\ UNCHANGED llm_calls
       ELSE IF ~ReachesApi(PrimaryBranch)
       THEN /\ llm_pc' = "fallback"
            /\ UNCHANGED <<llm_calls, llm_result>>
       ELSE /\ llm_calls' = Append(llm_calls,
                  [provider |-> PrimaryBranch, ok |-> ok, args |-> llm_args])
            /\ IF ok
               THEN llm_pc' = "done" /\ llm_result' = Returned(PrimaryBranch)
               ELSE llm_pc' = "fallback" /\ UNCHANGED llm_result
    /\ UNCHANGED <<primary_provider, fallback_provider, anthropic_client, llm_args>>

\* the except block of the first try
TryFallback(ok) ==
    /\ UNCHANGED NotLlm
    /\ llm_pc = "fallback"
    /\ llm_pc' = "done"
    /\ IF FallbackBranch = None
       THEN /\ llm_result' = AllFailed
            /\ UNCHANGED llm_calls
       ELSE /\ llm_calls' = Append(llm_calls,
                  [provider |-> FallbackBranch, ok |-> ok, args |-> llm_args])
            /\ llm_result' = IF ok THEN Returned(FallbackBranch) ELSE AllFailed
    /\ UNCHANGED <<primary_provider, fallback_provider, anthropic_client, llm_args>>

LlmNext ==
    \/ \E t \in TemperatureArgs, m \in MaxTokensArgs : GenerateStart(t, m)
    \/ \E ok \in BOOLEAN : TryPrimary(ok)
    \/ \E ok \in BOOLEAN : TryFallback(ok)

\* a provider that is configured: named by a setting, with a client to call it
ConfiguredProviders ==
    {p \in {primary_provider, fallback_provider} :
        p = "openai" \/ (p = "anthropic" /\ anthropic_client)}

Called(p) == \E i \in 1..Len(llm_calls) : llm_calls[i].provider = p
CalledAndFailed(p) ==
    \E i \in 1..Len(llm_calls) : llm_calls[i].provider = p /\ ~llm_calls[i].ok

\* C10: the primary provider's result is returned, without a fallback call,
\* when the primary call succeeds; a successful fallback call's result is
\* returned when the primary call failed; 'All LLM providers failed' is raised
\* only after every configured provider among primary and fallback was called
\* and failed.
C10_LlmFallback ==
    llm_pc = "done" =>
        /\ (Len(llm_calls) > 0 /\ llm_calls[1].ok) =>
              llm_result = Returned(llm_calls[1].provider) /\ Len(llm_calls) = 1
        /\ (Len(llm_calls) = 2 /\ llm_calls[2].ok) =>
              llm_result = Returned(llm_calls[2].provider)
        /\ llm_result.outcome = "raised" =>
              \A p \in ConfiguredProviders : CalledAndFailed(p)

(***************************************************************************)
(* The secure query engine and POST /api/v1/query                          *)
(* (ai-service/rag/secure_rag_engine.py, ai-service/api/main.py)           *)
(***************************************************************************)
\* requests explored
MaxRequests == 2

\* QueryRequest.question: Field(min_length=5, max_length=500)
QuestionMinLength == 5
QuestionMaxLength == 500

\* pii_terms
pii_terms == <<
    <<"n","a","m","e">>,
    <<"a","d","d","r","e","s","s">>,
    <<"p","h","o","n","e">>,
    <<"e","m","a","i","l">>,
    <<"s","s","n">>,
    <<"s","o","c","i","a","l"," ","s","e","c","u","r","i","t","y">>,
    <<"d","a","t","e"," ","o","f"," ","b","i","r","t","h">>,
    <<"d","o","b">>,
    <<"p","a","t","i","e","n","t"," ","i","d">>,
    <<"m","e","d","i","c","a","l"," ","r","e","c","o","r","d">>,
    <<"s","p","e","c","i","f","i","c"," ","p","a","t","i","e","n","t">>,
    <<"j","o","h","n">>,
    <<"j","a","n","e">>,
    <<"s","m","i","t","h">>>>

\* "Email use": a PII term in another case
Q_email == <<"E","m","a","i","l"," ","u","s","e">>
\* "tournament": a PII term inside a word
Q_tournament == <<"t","o","u","r","n","a","m","e","n","t">>
\* "age groups": no PII term
Q_age == <<"a","g","e"," ","g","r","o","u","p","s">>
\* "DOB": shorter than QueryRequest allows
Q_dob == <<"D","O","B">>
Questions == {Q_email, Q_tournament, Q_age, Q_dob}

\* QueryRequest.validate_query_type
AllowedQueryTypes == {"sales", "inventory", "patient_analytics"}

\* what NLSQLTableQueryEngine.query does: answers, or raises
EngineOutcomes == {"ok", "raise"}

PiiRefusalAnswer ==
    "I cannot provide information about specific individuals. I can only provide anonymized aggregate statistics and trends."
EngineErrorAnswer ==
    "I apologize, but I encountered an error processing your query."

\* term in text
StrContains(text, term) ==
    \E i \in 1..(Len(text) - Len(term) + 1) :
        SubSeq(text, i, i + Len(term) - 1) = term

\* the PII check without question.lower()
_contains_pii_terms_CaseSensitive(question) ==
    \E k \in 1..Len(pii_terms) : StrContains(question, pii_terms[k])

\* question_lower = question.lower(); any(term in question_lower ...)
_contains_pii_terms(question) ==
    LET question_lower == StrLower(question)
    IN  \E k \in 1..Len(pii_terms) : StrContains(question_lower, pii_terms[k])

\* the dict a query method returns on success
SuccessResult(query_type) ==
    [answer |-> "engine answer",
     metadata |-> [query_type |-> query_type],
     success |-> TRUE]

\* the dict of the except branch: no "metadata" key
FailureResult ==
    [answer |-> EngineErrorAnswer, error |-> "engine error", success |-> FALSE]

\* the dict of the PII refusal: no "metadata" key
PiiResult ==
    [answer |-> PiiRefusalAnswer, error |-> "PII_REJECTED", success |-> FALSE]

\* query_sales, query_inventory: <<result, engine queries issued>>
query_plain(engine_name, question, outcome) ==
    <<IF outcome = "ok" THEN SuccessResult(engine_name) ELSE FailureResult,
      {<<engine_name, question>>}>>

\* query_patient_analytics: <<result, engine queries issued>>
query_patient_analytics(question, outcome) ==
    IF _contains_pii_terms(question)
    THEN <<PiiResult, {}>>
    ELSE query_plain("patient_analytics", question, outcome)

\* the method query_database routes to
RouteToEngine(query_type, question, outcome) ==
    IF query_type = "patient_analytics"
    THEN query_patient_analytics(question, outcome)
    ELSE query_plain(query_type, question, outcome)

\* result["metadata"]["user_id"] = ...; return QueryResponse(**result);
\* a KeyError is caught by except Exception and becomes HTTP 500
QueryEndpointResponse(result) ==
    IF "metadata" \in DOMAIN result
    THEN [http |-> 200, answer |-> result.answer, success |-> result.success,
          error |-> IF "error" \in DOMAIN result THEN result.error ELSE None,
          detail |-> None]
    ELSE [http |-> 500, answer |-> None, success |-> None, error |-> None,
          detail |-> "Query processing failed"]

\* pydantic validation of QueryRequest
ValidQueryRequest(question, query_type) ==
    /\ Len(question) >= QuestionMinLength
    /\ Len(question) <= QuestionMaxLength
    /\ query_type \in AllowedQueryTypes

NoQe == [op |-> "none"]

QeInit ==
    /\ engine_log = {}
    /\ qe_requests = 0
    /\ qe = NoQe

\* a direct call of SecureRAGEngine.query_patient_analytics
QueryPatientAnalytics(question, outcome) ==
    /\ UNCHANGED NotQe
    /\ qe_requests < MaxRequests
    /\ LET r == query_patient_analytics(question, outcome)
       IN  /\ engine_log' = engine_log \cup r[2]
           /\ qe' = [op |-> "query_patient_analytics", question |-> question,
                     query_type |-> "patient_analytics", result |-> r[1],
                     issued |-> r[2], closed |-> FALSE,
                     response |-> [http |-> 0]]
    /\ qe_requests' = qe_requests + 1

\* get_tenant_rag_engine cannot build the engine: the handler does not run
QueryDatabaseNoEngine(question, query_type) ==
    /\ UNCHANGED NotQe
    /\ qe_requests < MaxRequests
    /\ ValidQueryRequest(question, query_type)
    /\ qe' = [op |-> "no_engine", question |-> question,
              query_type |-> query_type, result |-> NoResponse,
              issued |-> {}, closed |-> FALSE,
              response |-> [http |-> 500, answer |-> None, success |-> None,
                            error |-> None,
                            detail |-> "Failed to initialize AI service"]]
    /\ qe_requests' = qe_requests + 1
    /\ UNCHANGED engine_log

\* POST /api/v1/query
QueryDatabase(question, query_type, outcome) ==
    /\ UNCHANGED NotQe
    /\ qe_requests < MaxRequests
    /\ ValidQueryRequest(question, query_type)
    /\ LET r == RouteToEngine(query_type, question, outcome)
       IN  /\ engine_log' = engine_log \cup r[2]
           /\ qe' = [op |-> "query_database", question |-> question,
                     query_type |-> query_type, result |-> r[1],
                     issued |-> r[2],
                     \* finally: rag_engine.close()
                     closed |-> TRUE,
                     response |-> QueryEndpointResponse(r[1])]
    /\ qe_requests' = qe_requests + 1

QeNext ==
    \/ \E q \in Questions, o \in EngineOutcomes : QueryPatientAnalytics(q, o)
    \/ \E q \in Questions, t \in AllowedQueryTypes : QueryDatabaseNoEngine(q, t)
    \/ \E q \in Questions, t \in AllowedQueryTypes, o \in EngineOutcomes :
           QueryDatabase(q, t, o)

\* the question contains a PII term as a substring, letter case ignored
ContainsPiiTerm(question) ==
    \E k \in 1..Len(pii_terms) :
        LET term == pii_terms[k]
        IN  \E i \in 0..(Len(question) - Len(term)) :
                \A j \in 1..Len(term) :
                    LowerChar(question[i + j]) = LowerChar(term[j])

\* the last call went through query_patient_analytics
PatientAnalyticsCalled ==
    /\ qe.op \in {"query_patient_analytics", "query_database"}
    /\ qe.query_type = "patient_analytics"

\* C11: a question that contains a PII term, in any letter case and anywhere
\* in the text, is never passed to the patient query engine; the call
\* returns success=False, error 'PII_REJECTED' and the refusal answer, and
\* issues no engine (database) query.
C11_PiiRejected ==
    /\ \A p \in engine_log :
           p[1] = "patient_analytics" => ~ContainsPiiTerm(p[2])
    /\ (PatientAnalyticsCalled /\ ContainsPiiTerm(qe.question)) =>
           /\ qe.result.success = FALSE
           /\ qe.result.error = "PII_REJECTED"
           /\ qe.result.answer = PiiRefusalAnswer
           /\ qe.issued = {}

\* a question with "Email" was refused, a clean one reached the engine
C11_Witness ==
    /\ qe.op = "query_patient_analytics"
    /\ qe.question = Q_email
    /\ qe.result.error = "PII_REJECTED"
    /\ <<"patient_analytics", Q_age>> \in engine_log

\* C12: POST /api/v1/query delivers every engine result (success, failure,
\* PII refusal) to the client as a QueryResponse with the result's answer,
\* success and error, and closes the engine afterwards.
C12_QueryResultDelivered ==
    qe.op = "query_database" =>
        /\ qe.closed
        /\ qe.response.http = 200
        /\ qe.response.answer = qe.result.answer
        /\ qe.response.success = qe.result.success
        /\ qe.response.error =
               (IF "error" \in DOMAIN qe.result THEN qe.result.error ELSE None)

(***************************************************************************)
(* POST /api/v1/ocr/upload (ai-service/api/main.py, ai-service/api/ocr.py) *)
(***************************************************************************)
\* file.content_type as the client sent it; None without a Content-Type
CT_png == <<"i","m","a","g","e","/","p","n","g">>
CT_upper == <<"I","m","a","g","e","/","P","N","G">>
CT_pdf == <<"a","p","p","l","i","c","a","t","i","o","n","/","p","d","f">>
CT_bare == <<"i","m","a","g","e">>
\* file.content_type is None: a sentinel that is no character sequence
NoContentType == <<"None">>
ContentTypes == {NoContentType, CT_png, CT_upper, CT_pdf, CT_bare}
ImagePrefix == <<"i","m","a","g","e","/">>

\* the uploaded bytes, and what the vision model makes of them
FileContents == {"empty", "bytes"}
VisionOutcomes == {"text", "no_text", "raise"}

\* str.startswith(prefix)
StartsWith(s, prefix) ==
    /\ Len(s) >= Len(prefix)
    /\ SubSeq(s, 1, Len(prefix)) = prefix

\* str(e) of the HTTPException: "400: File must be an image" where the
\* framework defines __str__, "" where it does not
HttpExceptionStrs == {"400: File must be an image", ""}

OcrResponse(http, detail, body) ==
    [http |-> http, detail |-> detail, body |-> body]

\* OCRService.process_prescription_image
process_prescription_image(contents, flags, vision) ==
    IF contents = "empty"
    THEN [success |-> FALSE, extracted_text |-> None,
          parsed |-> FALSE, errors |-> "No valid image data provided"]
    ELSE IF vision = "raise"
    THEN [success |-> FALSE, extracted_text |-> None,
          parsed |-> FALSE, errors |-> "vision error"]
    ELSE LET extracted_text == IF vision = "text" THEN "text" ELSE None
         IN  [success |-> TRUE,
              extracted_text |->
                  IF flags.extract_text THEN extracted_text ELSE None,
              parsed |-> flags.parse_prescription /\ extracted_text # None,
              errors |-> None]

\* upload_prescription_image: <<response, calls of the OCR service>>; the
\* HTTPException(400) is raised inside try and caught by except Exception
upload_prescription_image(content_type, contents, flags, vision, exc_str) ==
    IF content_type = NoContentType
    THEN <<OcrResponse(500, "'NoneType' object has no attribute 'startswith'",
                       NoResponse), 0>>
    ELSE IF ~StartsWith(content_type, ImagePrefix)
    THEN <<OcrResponse(500, exc_str, NoResponse), 0>>
    ELSE <<OcrResponse(200, None,
                       process_prescription_image(contents, flags, vision)), 1>>

OcrFlags == [extract_text : BOOLEAN, parse_prescription : BOOLEAN]

NoOcr == [op |-> "none"]

OcrInit ==
    /\ ocr_invocations = 0
    /\ ocr_requests = 0
    /\ ocr = NoOcr

\* POST /api/v1/ocr/upload
UploadPrescriptionImage(content_type, contents, flags, vision, exc_str) ==
    /\ UNCHANGED NotOcr
    /\ ocr_requests < MaxRequests
    /\ LET r == upload_prescription_image(content_type, contents, flags,
                                          vision, exc_str)
       IN  /\ ocr' = [op |-> "upload", content_type |-> content_type,
                      contents |-> contents, flags |-> flags,
                      invoked |-> r[2], response |-> r[1]]
           /\ ocr_invocations' = ocr_invocations + r[2]
    /\ ocr_requests' = ocr_requests + 1

OcrNext ==
    \E ct \in ContentTypes, c \in FileContents, f \in OcrFlags,
       v \in VisionOutcomes, e \in HttpExceptionStrs :
        UploadPrescriptionImage(ct, c, f, v, e)

\* the content type is present and does not start with 'image/'
NotAnImage(content_type) ==
    /\ content_type # NoContentType
    /\ \/ Len(content_type) < Len(ImagePrefix)
       \/ \E i \in 1..Len(ImagePrefix) : content_type[i] # ImagePrefix[i]

\* C13: an upload whose content type does not start with 'image/' is
\* answered HTTP 400 'File must be an image' and the OCR service is not
\* invoked for it.
C13_NonImageRejected400 ==
    (ocr.op = "upload" /\ NotAnImage(ocr.content_type)) =>
        /\ ocr.response.http = 400
        /\ ocr.response.detail = "File must be an image"
        /\ ocr.invoked = 0

(***************************************************************************)
(* GET /api/v1/analytics/order-trends                                      *)
(* (python-service/main.py, python-service/db_utils.py)                    *)
(***************************************************************************)
\* an order: its age in days at the time of the request, and its lens type
OrderAges == {1, 10}
LensTypes == {"single_vision", "progressive"}
OrderAmount == 100
\* the days parameter
DaysArgs == {7, 30}
\* what a query on the connection does: returns its rows or raises
QueryOutcomes == {"ok", "raise"}
\* top_lens_types keeps lens_results[:5]
TopLensTypes == 5

RECURSIVE SumOver(_, _)
\* sum(f[x] for x in S)
SumOver(S, f) ==
    IF S = {} THEN 0
    ELSE LET x == CHOOSE y \in S : TRUE
         IN  f[x] + SumOver(S \ {x}, f)

\* DatabaseConnection.is_configured
is_configured == connection_string # None

\* DatabaseConnection.execute_query: [] when not configured or on any error
execute_query(rows, outcome) ==
    IF ~is_configured THEN {}
    ELSE IF outcome = "raise" THEN {}
    ELSE rows

\* WHERE created_at >= NOW() - INTERVAL 'days days'
InPeriod(days) == {o \in orders : o.age <= days}

\* SELECT DATE(created_at), COUNT(*), SUM(total_amount) ... GROUP BY DATE(created_at)
DailyRows(days) ==
    {[order_date |-> a,
      order_count |-> Cardinality({o \in InPeriod(days) : o.age = a}),
      daily_revenue |-> OrderAmount * Cardinality({o \in InPeriod(days) : o.age = a})]
     : a \in {o.age : o \in InPeriod(days)}}

\* SELECT lens_type, COUNT(*) ... GROUP BY lens_type
LensRows(days) ==
    {[type |-> t, count |-> Cardinality({o \in InPeriod(days) : o.lens_type = t})]
     : t \in {o.lens_type : o \in InPeriod(days)}}

\* round(total / n, 2), in hundredths
RoundedAverage(total, n) == ((total * 1000) \div n + 5) \div 10

\* get_order_trends_from_db: None, or the dict computed from the rows
get_order_trends_from_db(days, outcome1, outcome2) ==
    IF ~is_configured THEN NoResponse
    ELSE LET results == execute_query(DailyRows(days), outcome1)
             lens_results == execute_query(LensRows(days), outcome2)
             total_orders == SumOver(results, [r \in results |-> r.order_count])
             total_revenue == SumOver(results, [r \in results |-> r.daily_revenue])
         IN  IF results = {} THEN NoResponse
             ELSE [period_days |-> days,
                   total_orders |-> total_orders,
                   total_revenue |-> total_revenue,
                   average_per_day |->
                       RoundedAverage(total_orders,
                           IF Cardinality(results) > 1
                           THEN Cardinality(results) ELSE 1),
                   trend |-> "stable",
                   \* at most TopLensTypes rows; there are fewer lens types
                   top_lens_types |-> lens_results,
                   daily_data |->
                       {[date |-> r.order_date, orders |-> r.order_count,
                         revenue |-> r.daily_revenue] : r \in results}]

\* the hard-coded dict of get_order_trends (average and growth in hundredths)
ExampleData(days) ==
    [period_days |-> days,
     total_orders |-> 247,
     average_per_day |-> 820,
     trend |-> "increasing",
     growth_percentage |-> 1250,
     predictions |-> [next_week |-> 58, next_month |-> 250],
     top_lens_types |-> {[type |-> "single_vision", count |-> 145],
                         [type |-> "progressive", count |-> 78],
                         [type |-> "bifocal", count |-> 24]},
     _note |-> "Using example data. Configure DATABASE_URL to fetch real data."]

\* get_order_trends: db_data if it is truthy, else the example data
get_order_trends(days, outcome1, outcome2) ==
    LET db_data == get_order_trends_from_db(days, outcome1, outcome2)
    IN  IF db_data # NoResponse THEN db_data ELSE ExampleData(days)

NoTrends == [op |-> "none"]

TrendsIdle ==
    /\ connection_string = None
    /\ orders = {}
    /\ trends = NoTrends

\* db = DatabaseConnection(): DATABASE_URL is read once, at import
TrendsInit ==
    /\ connection_string \in {None, "postgresql://db"}
    /\ orders = {}
    /\ trends = NoTrends

\* an order is placed (by the main application)
InsertOrder(age, lens_type) ==
    /\ UNCHANGED NotTrends
    /\ Cardinality(orders) < MaxRows
    /\ orders' = orders \cup {[id |-> Cardinality(orders) + 1, age |-> age,
                               lens_type |-> lens_type]}
    /\ UNCHANGED <<connection_string, trends>>

\* GET /api/v1/analytics/order-trends?days=...
GetOrderTrends(days, outcome1, outcome2) ==
    /\ UNCHANGED NotTrends
    /\ trends' = [op |-> "get_order_trends", days |-> days,
                  configured |-> is_configured,
                  failed |-> outcome1 = "raise",
                  response |-> get_order_trends(days, outcome1, outcome2)]
    /\ UNCHANGED <<connection_string, orders>>

TrendsNext ==
    \/ \E a \in OrderAges, t \in LensTypes : InsertOrder(a, t)
    \/ \E d \in DaysArgs, o1 \in QueryOutcomes, o2 \in QueryOutcomes :
           GetOrderTrends(d, o1, o2)

\* the response is the hard-coded example data
IsExampleData(response) == "_note" \in DOMAIN response

\* C14: the example data (marked '_note') is returned only when the database
\* is not configured; with a database configured the response is computed
\* from the rows, also when the period holds no orders or the query fails.
C14_ExampleOnlyUnconfigured ==
    trends.op = "get_order_trends" =>
        (IsExampleData(trends.response) <=> ~trends.configured)

(***************************************************************************)
(* The patient anonymizer (ai-service/data/anonymize_patient_data.py)      *)
(***************************************************************************)
DigitChars == <<"0","1","2","3","4","5","6","7","8","9">>
IsDigit(c) == \E i \in 1..10 : DigitChars[i] = c
DigitValue(c) == (CHOOSE i \in 1..10 : DigitChars[i] = c) - 1
IsUpper(c) == \E i \in 1..Len(UpperChars) : UpperChars[i] = c
IsLower(c) == \E i \in 1..Len(LowerChars) : LowerChars[i] = c
\* \w
IsWordChar(c) == IsDigit(c) \/ IsUpper(c) \/ IsLower(c) \/ c = "_"

RECURSIVE DigitsToInt(_)
\* int("...") of a string of digits
DigitsToInt(s) ==
    IF s = <<>> THEN 0
    ELSE 10 * DigitsToInt(SubSeq(s, 1, Len(s) - 1)) + DigitValue(s[Len(s)])

RECURSIVE IntToStr(_)
\* str(n) for n >= 0
IntToStr(n) ==
    IF n < 10 THEN <<DigitChars[n + 1]>>
    ELSE IntToStr(n \div 10) \o <<DigitChars[(n % 10) + 1]>>

AllDigits(s) == \A i \in 1..Len(s) : IsDigit(s[i])

\* a column that the row does not have, and a column that is NULL
Missing == <<"<missing>">>
NoneValue == <<"None">>

\* "1980-05-17"
Dob_iso == <<"1","9","8","0","-","0","5","-","1","7">>
\* "05/17/1980"
Dob_us == <<"0","5","/","1","7","/","1","9","8","0">>
\* "2023-11-02T10:30:00"
Visit_datetime == <<"2","0","2","3","-","1","1","-","0","2","T","1","0",":","3","0",":","0","0">>
\* "2023-11-02"
Visit_iso == <<"2","0","2","3","-","1","1","-","0","2">>
\* "2023-11"
Visit_month == <<"2","0","2","3","-","1","1">>
\* "1 Main St, Springfield IL 62704"
Address_full == <<"1"," ","M","a","i","n"," ","S","t",","," ","S","p","r","i","n","g","f","i","e","l","d"," ","I","L"," ","6","2","7","0","4">>
\* "PO Box 7, Ohio"
Address_nozip == <<"P","O"," ","B","o","x"," ","7",","," ","O","h","i","o">>
\* "Apt 12345 NY 100011234"
Address_zip9 == <<"A","p","t"," ","1","2","3","4","5"," ","N","Y"," ","1","0","0","0","1","1","2","3","4">>
PatientId == <<"p","1">>
FirstName == <<"J","o","h","n">>
Ssn == <<"1","2","3","-","4","5","-","6","7","8","9">>
LensProgressive == <<"p","r","o","g","r","e","s","s","i","v","e">>
Salt == <<"s">>

\* datetime.now().year
CurrentYear == 2026

\* days of the months, February of a common year
DaysInMonth == <<31, 28, 31, 30, 31, 30, 31, 31, 30, 31, 30, 31>>
LeapYear(y) == (y % 4 = 0 /\ y % 100 # 0) \/ y % 400 = 0

\* YYYY-MM-DD names a date
ValidDatePart(s) ==
    /\ Len(s) = 10
    /\ s[5] = "-" /\ s[8] = "-"
    /\ AllDigits(SubSeq(s, 1, 4)) /\ AllDigits(SubSeq(s, 6, 7))
    /\ AllDigits(SubSeq(s, 9, 10))
    /\ LET y == DigitsToInt(SubSeq(s, 1, 4))
           mo == DigitsToInt(SubSeq(s, 6, 7))
           d == DigitsToInt(SubSeq(s, 9, 10))
       IN  /\ y >= 1
           /\ mo >= 1 /\ mo <= 12
           /\ d >= 1
           /\ d <= DaysInMonth[mo] + (IF mo = 2 /\ LeapYear(y) THEN 1 ELSE 0)

\* HH:MM:SS names a time
ValidTimePart(s) ==
    /\ Len(s) = 8
    /\ s[3] = ":" /\ s[6] = ":"
    /\ AllDigits(SubSeq(s, 1, 2)) /\ AllDigits(SubSeq(s, 4, 5))
    /\ AllDigits(SubSeq(s, 7, 8))
    /\ DigitsToInt(SubSeq(s, 1, 2)) <= 23
    /\ DigitsToInt(SubSeq(s, 4, 5)) <= 59
    /\ DigitsToInt(SubSeq(s, 7, 8)) <= 59

\* datetime.fromisoformat accepts the string (date, or date and time)
FromIsoFormatOk(s) ==
    \/ ValidDatePart(s)
    \/ /\ Len(s) = 19
       /\ ValidDatePart(SubSeq(s, 1, 10))
       /\ s[11] \in {"T", " "}
       /\ ValidTimePart(SubSeq(s, 12, 19))


\* not value: None or the empty string
Falsy(value) == value = NoneValue \/ value = <<>>

\* hashlib.sha256(...).hexdigest()[:16], taken as collision-free
HexDigest16(hash_input) == <<"sha256">> \o hash_input

\* _create_anonymized_id
_create_anonymized_id(original_id) ==
    HexDigest16(hash_salt \o <<":">> \o original_id)

\* _anonymize_date: str(datetime.fromisoformat(date_str).year), None when
\* the string is empty or does not parse
_anonymize_date(date_str) ==
    IF Falsy(date_str) THEN NoneValue
    ELSE IF FromIsoFormatOk(date_str)
    THEN IntToStr(DigitsToInt(SubSeq(date_str, 1, 4)))
    ELSE NoneValue

\* _calculate_age_group with reference_year = datetime.now().year
_calculate_age_group(birth_year) ==
    LET age == CurrentYear - birth_year
    IN
    IF age < 18 THEN <<"u","n","d","e","r","-","1","8">>
    ELSE IF age < 30 THEN <<"1","8","-","2","9">>
    ELSE IF age < 40 THEN <<"3","0","-","3","9">>
    ELSE IF age < 50 THEN <<"4","0","-","4","9">>
    ELSE IF age < 60 THEN <<"5","0","-","5","9">>
    ELSE IF age < 70 THEN <<"6","0","-","6","9">>
    ELSE <<"7","0","-","p","l","u","s">>

\* \b before position i, where s[i] is a word character
WordStart(s, i) == i = 1 \/ ~IsWordChar(s[i - 1])

FiveDigitsAt(s, i) ==
    /\ i + 4 <= Len(s)
    /\ AllDigits(SubSeq(s, i, i + 4))

\* \b([A-Z]{2})\s+\d{5} matches at position i
StateMatchAt(s, i) ==
    /\ i + 1 <= Len(s)
    /\ IsUpper(s[i]) /\ IsUpper(s[i + 1])
    /\ WordStart(s, i)
    /\ \E n \in 1..Len(s) :
           /\ \A j \in (i + 2)..(i + 1 + n) :
                  j <= Len(s) /\ s[j] \in Whitespace
           /\ FiveDigitsAt(s, i + 2 + n)

\* \b(\d{5}) matches at position i
ZipMatchAt(s, i) == FiveDigitsAt(s, i) /\ WordStart(s, i)

\* re.search: the leftmost position where the pattern matches, 0 if none
Leftmost(S) == IF S = {} THEN 0 ELSE CHOOSE i \in S : \A j \in S : i <= j

\* _anonymize_geographic: None, or the dict with state and zip3
_anonymize_geographic(address) ==
    IF Falsy(address) THEN NoResponse
    ELSE LET si == Leftmost({i \in 1..Len(address) : StateMatchAt(address, i)})
             zi == Leftmost({i \in 1..Len(address) : ZipMatchAt(address, i)})
         IN  [state |-> IF si # 0 THEN SubSeq(address, si, si + 1)
                        ELSE NoneValue,
              zip3 |-> IF zi # 0 THEN SubSeq(address, zi, zi + 2)
                       ELSE NoneValue]

\* the safe-field list with the SSN column added to it
safe_fields_WithSsn == <<
    "prescription_od_sphere", "prescription_od_cylinder",
    "prescription_od_axis", "prescription_os_sphere",
    "prescription_os_cylinder", "prescription_os_axis",
    "lens_type", "frame_type", "lens_material", "coating_type",
    "purchase_amount", "insurance_type_category", "ssn">>

\* safe_fields
safe_fields == <<
    "prescription_od_sphere", "prescription_od_cylinder",
    "prescription_od_axis", "prescription_os_sphere",
    "prescription_os_cylinder", "prescription_os_axis",
    "lens_type", "frame_type", "lens_material", "coating_type",
    "purchase_amount", "insurance_type_category">>

\* field in record
HasField(record, field) ==
    field \in DOMAIN record /\ record[field] # Missing

\* _remove_identifiers: the dict built key by key
_remove_identifiers(record) ==
    LET birth_year_str ==
            IF HasField(record, "date_of_birth")
            THEN _anonymize_date(record["date_of_birth"]) ELSE NoneValue
        geo == IF HasField(record, "address")
               THEN _anonymize_geographic(record["address"]) ELSE NoResponse
        copied == {safe_fields[i] : i \in {j \in 1..Len(safe_fields) :
                                               HasField(record, safe_fields[j])}}
        keys ==
            (IF HasField(record, "patient_id")
             THEN {"anonymized_patient_id"} ELSE {})
            \cup (IF ~Falsy(birth_year_str)
                  THEN {"birth_year", "age_group"} ELSE {})
            \cup (IF geo # NoResponse THEN {"state", "zip3"} ELSE {})
            \cup copied
            \cup (IF HasField(record, "last_visit_date")
                  THEN {"last_visit_year"} ELSE {})
    IN  [k \in keys |->
            CASE k = "anonymized_patient_id" ->
                     _create_anonymized_id(record["patient_id"])
              [] k = "birth_year" -> DigitsToInt(birth_year_str)
              [] k = "age_group" ->
                     _calculate_age_group(DigitsToInt(birth_year_str))
              [] k = "state" -> geo.state
              [] k = "zip3" -> geo.zip3
              [] k = "last_visit_year" ->
                     _anonymize_date(record["last_visit_date"])
              [] OTHER -> record[k]]

\* the rows of the source table: every column is absent or holds a value
SourceRecords ==
    [patient_id : {Missing, PatientId},
     first_name : {Missing, FirstName},
     ssn : {Missing, Ssn},
     date_of_birth : {Missing, NoneValue, Dob_iso, Dob_us},
     address : {Missing, NoneValue, Address_full, Address_nozip, Address_zip9},
     lens_type : {Missing, LensProgressive},
     last_visit_date : {Missing, Visit_datetime, Visit_iso, Visit_month}]

NoAnonymized == [done |-> FALSE]

AnonIdle ==
    /\ hash_salt = Salt
    /\ source_record = [patient_id |-> Missing, first_name |-> Missing,
                        ssn |-> Missing, date_of_birth |-> Missing,
                        address |-> Missing, lens_type |-> Missing,
                        last_visit_date |-> Missing]
    /\ anonymized = NoAnonymized

AnonInit ==
    /\ hash_salt = Salt
    /\ source_record \in SourceRecords
    /\ anonymized = NoAnonymized

\* _remove_identifiers(record)
RemoveIdentifiers ==
    /\ UNCHANGED NotAnon
    /\ ~anonymized.done
    /\ anonymized' = [done |-> TRUE,
                      record |-> _remove_identifiers(source_record)]
    /\ UNCHANGED <<hash_salt, source_record>>

AnonNext == RemoveIdentifiers

\* the keys an anonymized record may have
AnonymizedKeys ==
    {"anonymized_patient_id", "birth_year", "age_group", "state", "zip3",
     "prescription_od_sphere", "prescription_od_cylinder",
     "prescription_od_axis", "prescription_os_sphere",
     "prescription_os_cylinder", "prescription_os_axis",
     "lens_type", "frame_type", "lens_material", "coating_type",
     "purchase_amount", "insurance_type_category", "last_visit_year"}

\* the values of the source columns outside the safe-field list
UnsafeSourceValues ==
    {source_record[k] :
        k \in {f \in DOMAIN source_record :
                  /\ \A i \in 1..Len(safe_fields) : safe_fields[i] # f
                  /\ source_record[f] \notin {Missing, NoneValue}}}

\* a string of one to four digits
YearOnly(s) == Len(s) >= 1 /\ Len(s) <= 4 /\ AllDigits(s)

\* C15: the record _remove_identifiers produces has only keys of the fixed
\* allowlist, holds no value of a source column outside the safe-field list
\* verbatim, and its date-derived fields (birth_year, last_visit_year) are
\* years only.
C15_AnonymizationAllowlist ==
    anonymized.done =>
        LET out == anonymized.record
        IN  /\ DOMAIN out \subseteq AnonymizedKeys
            /\ \A k \in DOMAIN out \ {"birth_year"} :
                   out[k] \notin UnsafeSourceValues
            /\ "birth_year" \in DOMAIN out =>
                   out["birth_year"] \in 1..9999
            /\ "last_visit_year" \in DOMAIN out =>
                   \/ out["last_visit_year"] = NoneValue
                   \/ YearOnly(out["last_visit_year"])

\* a full record went through: the identifier hashed, the birth date and the
\* visit date reduced to their years, the address to state and zip3, the
\* lens type copied and the name and the SSN dropped
C15_Witness ==
    /\ anonymized.done
    /\ source_record.first_name = FirstName
    /\ source_record.ssn = Ssn
    /\ source_record.address = Address_full
    /\ DOMAIN anonymized.record =
           {"anonymized_patient_id", "birth_year", "age_group", "state",
            "zip3", "lens_type", "last_visit_year"}
    /\ anonymized.record["birth_year"] = 1980
    /\ anonymized.record["last_visit_year"] = <<"2","0","2","3">>
    /\ anonymized.record["zip3"] = <<"6","2","7">>
    /\ anonymized.record["state"] = <<"I","L">>

(***************************************************************************)
(* POST /api/v1/feedback (ai-service/app.py, services/rag_service.py)      *)
(***************************************************************************)
\* FeedbackRequest.learning_id: absent, empty, the id of a row, a well-formed
\* id of no row, a string that is no UUID
LearningIdArgs == {None, "", "l1", "l2", "not-a-uuid"}
LearningUuids == {"l1", "l2"}
FbDbStatuses == {"up", "down", "unconfigured"}

\* AILearningData column defaults
DefaultUseCount == 0
DefaultSuccessRate == 100

\* int(((successRate / 100) * (total_uses - 1) + gained) / total_uses * 100)
NewSuccessRate(successRate, total_uses, was_helpful) ==
    (successRate * (total_uses - 1) + (IF was_helpful THEN 100 ELSE 0))
        \div total_uses

\* update_learning_metrics: <<rows afterwards, an exception was caught>>;
\* get_db raises without a database, execute raises when it is down,
\* uuid.UUID raises on a malformed id; except Exception only logs
update_learning_metrics(learning_id, was_helpful) ==
    IF fb_db = "unconfigured" THEN <<learning, TRUE>>
    ELSE IF learning_id \notin LearningUuids THEN <<learning, TRUE>>
    ELSE IF fb_db = "down" THEN <<learning, TRUE>>
    ELSE IF learning_id \in DOMAIN learning
    THEN LET e == learning[learning_id]
             total_uses == e.useCount + 1
         IN  <<[learning EXCEPT ![learning_id] =
                    [useCount |-> total_uses,
                     successRate |->
                         NewSuccessRate(e.successRate, total_uses, was_helpful)]],
               FALSE>>
    ELSE <<learning, FALSE>>

\* submit_feedback: <<response, rows afterwards, an error occurred>>
submit_feedback(learning_id, helpful) ==
    IF Truthy(learning_id) /\ enable_feedback
    THEN LET r == update_learning_metrics(learning_id, helpful)
         IN  <<[http |-> 200, success |-> TRUE, message |-> "Feedback recorded",
                detail |-> None], r[1], r[2]>>
    ELSE <<[http |-> 200, success |-> TRUE, message |-> "Feedback recorded",
            detail |-> None], learning, FALSE>>

NoFb == [op |-> "none"]

FbIdle ==
    /\ enable_feedback = TRUE
    /\ fb_db = "up"
    /\ learning = [i \in {"l1"} |-> [useCount |-> DefaultUseCount,
                                     successRate |-> DefaultSuccessRate]]
    /\ fb_requests = 0
    /\ fb = NoFb

FbInit ==
    /\ enable_feedback \in BOOLEAN
    /\ fb_db \in FbDbStatuses
    /\ learning = [i \in {"l1"} |-> [useCount |-> DefaultUseCount,
                                     successRate |-> DefaultSuccessRate]]
    /\ fb_requests = 0
    /\ fb = NoFb

\* the database goes down or comes back
FbDatabaseChange(s) ==
    /\ UNCHANGED NotFb
    /\ fb_db # "unconfigured"
    /\ s \in {"up", "down"} \ {fb_db}
    /\ fb_db' = s
    /\ UNCHANGED <<enable_feedback, learning, fb_requests, fb>>

\* POST /api/v1/feedback
SubmitFeedback(learning_id, helpful) ==
    /\ UNCHANGED NotFb
    /\ fb_requests < MaxRequests
    /\ LET r == submit_feedback(learning_id, helpful)
       IN  /\ fb' = [op |-> "submit_feedback", learning_id |-> learning_id,
                     helpful |-> helpful, error |-> r[3], response |-> r[1]]
           /\ learning' = r[2]
    /\ fb_requests' = fb_requests + 1
    /\ UNCHANGED <<enable_feedback, fb_db>>

FbNext ==
    \/ \E s \in FbDbStatuses : FbDatabaseChange(s)
    \/ \E l \in LearningIdArgs, h \in BOOLEAN : SubmitFeedback(l, h)

\* C16: when updating the learning metrics fails (database unavailable,
\* query error, malformed learning_id) POST /api/v1/feedback answers HTTP 500
\* 'Failed to record feedback'; it answers success 'Feedback recorded' only
\* when no error occurred while recording.
C16_FeedbackFailureIs500 ==
    fb.op = "submit_feedback" =>
        /\ fb.error =>
               /\ fb.response.http = 500
               /\ fb.response.detail = "Failed to record feedback"
        /\ (fb.response.http = 200 /\ fb.response.success) => ~fb.error

(***************************************************************************)
(* OphthalmicAIService.chat (ai-service/services/ophthalmic_ai_service.py) *)
(* Similarities and distances of this part are in units of 0.00001.        *)
(***************************************************************************)
SimilarityOne == 100000
\* settings.rag_similarity_threshold, 0.7
ChatSimilarityThreshold == 70000
\* learned_items[0]["similarity"] > 0.9
ShortcutSimilarity == 90000
\* top_k of the two searches of chat
KnowledgeTopK == 3
LearnedTopK == 2
\* conversation_history[-5:], context_items[:5], retrieved_context[:3]
HistoryWindow == 5
ContextWindow == 5
SourcesWindow == 3

\* the rows a table may hold: one company's knowledge at four distances, its
\* learned answers at similarity 0.95, 0.90004 and 0.8, another company's
\* learned answer at 0.99
ChatKbRows ==
    {[table |-> "aiKnowledgeBase", id |-> "k1", companyId |-> "c1", distance |-> 10000],
     [table |-> "aiKnowledgeBase", id |-> "k2", companyId |-> "c1", distance |-> 20000],
     [table |-> "aiKnowledgeBase", id |-> "k3", companyId |-> "c1", distance |-> 25000],
     [table |-> "aiKnowledgeBase", id |-> "k4", companyId |-> "c1", distance |-> 50000]}
ChatLearningRows ==
    {[table |-> "aiLearningData", id |-> "l1", companyId |-> "c1", distance |-> 5000],
     [table |-> "aiLearningData", id |-> "l2", companyId |-> "c1", distance |-> 9996],
     [table |-> "aiLearningData", id |-> "l3", companyId |-> "c1", distance |-> 20000],
     [table |-> "aiLearningData", id |-> "l4", companyId |-> "c2", distance |-> 1000]}

\* conversation histories of 0, 3 and 6 messages (None behaves as the empty one)
HistoryLengths == {0, 3, 6}
History(n) ==
    [i \in 1..n |-> [role |-> IF i % 2 = 1 THEN "user" ELSE "assistant",
                     content |-> i]]

\* round(similarity, 4)
Round4(similarity) == ((similarity + 5) \div 10) * 10

\* the dict the formatting loops of the searches build for a row
ContextItem(row) ==
    [kind |-> IF row.table = "aiLearningData" THEN "learned" ELSE "knowledge",
     id |-> row.id,
     answer |-> row.id,
     similarity |-> Round4(SimilarityOne - row.distance)]

\* rows whose raw similarity reaches the threshold, as items
ChatAboveThreshold(rows) ==
    LET kept == SelectSeq(rows, LAMBDA row :
                    SimilarityOne - row.distance >= ChatSimilarityThreshold)
    IN  [i \in 1..Len(kept) |-> ContextItem(kept[i])]

\* the result lists search_knowledge(company_id, top_k=3) can return
ChatSearchKnowledge(company_id, fails) ==
    IF fails THEN {<<>>}
    ELSE {ChatAboveThreshold(rows) :
            rows \in OrderByLimit({r \in chat_db :
                                      /\ r.table = "aiKnowledgeBase"
                                      /\ r.companyId = company_id},
                                  KnowledgeTopK)}

\* the result lists search_learned_data(company_id, top_k=2) can return
ChatSearchLearned(company_id, fails) ==
    IF fails THEN {<<>>}
    ELSE {ChatAboveThreshold(rows) :
            rows \in OrderByLimit({r \in chat_db :
                                      /\ r.table = "aiLearningData"
                                      /\ r.companyId = company_id},
                                  LearnedTopK)}

\* the shortcut test with >= in place of >
ShortcutApplies_AtLeast(learned_items) ==
    /\ learned_items # <<>>
    /\ learned_items[1].similarity >= ShortcutSimilarity

\* learned_items and learned_items[0]["similarity"] > 0.9
ShortcutApplies(learned_items) ==
    /\ learned_items # <<>>
    /\ learned_items[1].similarity > ShortcutSimilarity

\* seq[:n]
FirstN(seq, n) == SubSeq(seq, 1, Min(n, Len(seq)))
\* seq[-n:]
LastN(seq, n) ==
    SubSeq(seq, IF Len(seq) > n THEN Len(seq) - n + 1 ELSE 1, Len(seq))

\* _build_context_string: the entries of the string, one per item
_build_context_string(context_items) ==
    [i \in 1..Len(FirstN(context_items, ContextWindow)) |-> context_items[i].id]

\* the messages chat passes to generate_completion
ChatMessages(message, conversation_history, retrieved_context) ==
    LastN(conversation_history, HistoryWindow)
        \o <<[role |-> "user",
              content |-> [message |-> message,
                           context |-> _build_context_string(retrieved_context)]]>>

\* the dict chat returns for a learned answer
LearnedResponse(best_match) ==
    [raised |-> FALSE, answer |-> best_match.answer,
     used_external_ai |-> FALSE, context_used |-> TRUE,
     sources |-> <<best_match.id>>]

\* the dict chat returns for an LLM answer
LlmResponse(retrieved_context) ==
    [raised |-> FALSE, answer |-> "llm answer",
     used_external_ai |-> TRUE, context_used |-> Len(retrieved_context) > 0,
     sources |-> [i \in 1..Len(FirstN(retrieved_context, SourcesWindow)) |->
                      retrieved_context[i].id]]

\* chat re-raises what generate_completion raised
ChatRaised ==
    [raised |-> TRUE, answer |-> None, used_external_ai |-> None,
     context_used |-> None, sources |-> <<>>]

NoChat == [op |-> "none"]

ChatIdle ==
    /\ chat_db = {}
    /\ completion_requests = <<>>
    /\ chat = NoChat

ChatInit ==
    /\ chat_db \in SUBSET (ChatKbRows \cup ChatLearningRows)
    /\ completion_requests = <<>>
    /\ chat = NoChat

\* chat(message, company_id, conversation_history)
Chat(company_id, n, kb_fails, learned_fails, llm_ok) ==
    /\ UNCHANGED NotChat
    /\ chat = NoChat
    /\ \E knowledge_items \in ChatSearchKnowledge(company_id, kb_fails),
          learned_items \in ChatSearchLearned(company_id, learned_fails) :
        LET retrieved_context == knowledge_items \o learned_items
            messages == ChatMessages("message", History(n), retrieved_context)
        IN  IF ShortcutApplies(learned_items)
            THEN /\ chat' = [op |-> "chat", company_id |-> company_id,
                             history |-> History(n),
                             knowledge_items |-> knowledge_items,
                             learned_items |-> learned_items,
                             response |-> LearnedResponse(learned_items[1])]
                 /\ UNCHANGED completion_requests
            ELSE /\ chat' = [op |-> "chat", company_id |-> company_id,
                             history |-> History(n),
                             knowledge_items |-> knowledge_items,
                             learned_items |-> learned_items,
                             response |-> IF llm_ok
                                          THEN LlmResponse(retrieved_context)
                                          ELSE ChatRaised]
                 /\ completion_requests' =
                        Append(completion_requests, messages)
    /\ UNCHANGED chat_db

ChatNext ==
    \/ \E n \in HistoryLengths, llm_ok \in BOOLEAN :
           Chat("c1", n, FALSE, FALSE, llm_ok)
    \/ \E kf \in BOOLEAN, lf \in BOOLEAN : Chat("c1", 0, kf, lf, TRUE)

\* the completion request of the last chat
ChatRequestMade == completion_requests[Len(completion_requests)]

\* the history messages a completion request forwards: all but its last message
ForwardedHistory(messages) == SubSeq(messages, 1, Len(messages) - 1)

\* C17: when the best-matching learned item (the first the search returned)
\* has similarity above 0.9, chat returns that item's answer with
\* used_external_ai=False and makes no completion request; in every other
\* case it makes exactly one generate_completion call, a response has
\* used_external_ai=True, and the request forwards at most the last 5 history
\* messages and at most 5 context items.
C17_LearnedAnswerShortcut ==
    chat.op = "chat" =>
        IF /\ Len(chat.learned_items) > 0
           /\ chat.learned_items[1].similarity > ShortcutSimilarity
        THEN /\ ~chat.response.raised
             /\ chat.response.answer = chat.learned_items[1].answer
             /\ chat.response.used_external_ai = FALSE
             /\ completion_requests = <<>>
        ELSE /\ Len(completion_requests) = 1
             /\ ~chat.response.raised => chat.response.used_external_ai = TRUE
             /\ LET fwd == ForwardedHistory(ChatRequestMade)
                    h == chat.history
                IN  /\ Len(fwd) <= 5
                    /\ Len(fwd) = IF Len(h) < 5 THEN Len(h) ELSE 5
                    /\ \A i \in 1..Len(fwd) :
                           fwd[i] = h[Len(h) - Len(fwd) + i]
             /\ Len(ChatRequestMade[Len(ChatRequestMade)].content.context) <= 5

\* both branches happen for one company: a learned answer at similarity 0.95
\* is returned without a completion request
C17_Witness ==
    /\ chat.op = "chat"
    /\ Len(chat.learned_items) = 2
    /\ chat.learned_items[1].similarity = 95000
    /\ chat.response.used_external_ai = FALSE
    /\ completion_requests = <<>>

\* the other branch: six history messages and five context items at hand,
\* the best learned item at 0.9 after rounding, one completion request
C17_WitnessLlm ==
    /\ chat.op = "chat"
    /\ Len(chat.history) = 6
    /\ Len(chat.knowledge_items) = 3
    /\ Len(chat.learned_items) = 2
    /\ chat.learned_items[1].similarity = ShortcutSimilarity
    /\ Len(completion_requests) = 1
    /\ Len(ChatRequestMade) = 6

(***************************************************************************)
(* Specifications: one per component; the other components stay idle.      *)
(***************************************************************************)
\* the tenant router
Init == RouterInit /\ SearchInit /\ JwtIdle /\ SvcIdle /\ LlmIdle /\ QeInit
    /\ OcrInit /\ TrendsIdle /\ AnonIdle /\ FbIdle /\ ChatIdle
Next == RouterNext
Spec == Init /\ [][Next]_vars

\* vector search over arbitrary table contents
InitSearch == RouterInit /\ SearchInit /\ JwtIdle /\ SvcIdle /\ LlmIdle
    /\ QeInit /\ OcrInit /\ TrendsIdle /\ AnonIdle /\ FbIdle /\ ChatIdle
SpecSearch == InitSearch /\ [][SearchNext]_vars

\* JWT verification of an arbitrary token
InitJwt == RouterInit /\ SearchInit /\ JwtInit /\ SvcIdle /\ LlmIdle
    /\ QeInit /\ OcrInit /\ TrendsIdle /\ AnonIdle /\ FbIdle /\ ChatIdle
SpecJwt == InitJwt /\ [][JwtNext]_vars

\* startup and health check; the event loop runs the lifespan coroutine, the
\* connection attempt ends or wait_for times it out
InitService == RouterInit /\ SearchInit /\ JwtIdle /\ SvcInit /\ LlmIdle
    /\ QeInit /\ OcrInit /\ TrendsIdle /\ AnonIdle /\ FbIdle /\ ChatIdle
SpecService == InitService /\ [][SvcNext]_vars /\ WF_vars(StartupStep)

\* LLM completion under arbitrary provider settings
InitLlm == RouterInit /\ SearchInit /\ JwtIdle /\ SvcIdle /\ LlmInit
    /\ QeInit /\ OcrInit /\ TrendsIdle /\ AnonIdle /\ FbIdle /\ ChatIdle
SpecLlm == InitLlm /\ [][LlmNext]_vars

\* the secure query engine and POST /api/v1/query
InitQuery == RouterInit /\ SearchInit /\ JwtIdle /\ SvcIdle /\ LlmIdle
    /\ QeInit /\ OcrInit /\ TrendsIdle /\ AnonIdle /\ FbIdle /\ ChatIdle
SpecQuery == InitQuery /\ [][QeNext]_vars

\* POST /api/v1/ocr/upload
InitOcr == RouterInit /\ SearchInit /\ JwtIdle /\ SvcIdle /\ LlmIdle
    /\ QeInit /\ OcrInit /\ TrendsIdle /\ AnonIdle /\ FbIdle /\ ChatIdle
SpecOcr == InitOcr /\ [][OcrNext]_vars

\* order trends over arbitrary orders, with and without a database
InitTrends == RouterInit /\ SearchInit /\ JwtIdle /\ SvcIdle /\ LlmIdle
    /\ QeInit /\ OcrInit /\ TrendsInit /\ AnonIdle /\ FbIdle /\ ChatIdle
SpecTrends == InitTrends /\ [][TrendsNext]_vars

\* the anonymizer applied to an arbitrary source row
InitAnon == RouterInit /\ SearchInit /\ JwtIdle /\ SvcIdle /\ LlmIdle
    /\ QeInit /\ OcrInit /\ TrendsIdle /\ AnonInit /\ FbIdle /\ ChatIdle
SpecAnon == InitAnon /\ [][AnonNext]_vars

\* POST /api/v1/feedback
InitFeedback == RouterInit /\ SearchInit /\ JwtIdle /\ SvcIdle /\ LlmIdle
    /\ QeInit /\ OcrInit /\ TrendsIdle /\ AnonIdle /\ FbInit /\ ChatIdle
SpecFeedback == InitFeedback /\ [][FbNext]_vars

\* chat over arbitrary knowledge and learning rows
InitChat == RouterInit /\ SearchInit /\ JwtIdle /\ SvcIdle /\ LlmIdle
    /\ QeInit /\ OcrInit /\ TrendsIdle /\ AnonIdle /\ FbIdle /\ ChatInit
SpecChat == InitChat /\ [][ChatNext]_vars

====
